---- MODULE Spec2Model ----
(***************************************************************************)
(* State-machine model of the chessbeast engine services.                  *)
(*                                                                         *)
(*  - EnginePool (services/stockfish/src/stockfish_service/pool.py): the   *)
(*    tracked list _engines, the availability queue _available, the        *)
(*    lifecycle flags _started and _shutdown, and the threads that call    *)
(*    start / shutdown / acquire / release / engine() / health_check.      *)
(*  - StockfishEngine (services/stockfish/src/stockfish_service/engine.py):*)
(*    the wrapper's process handle _engine and the process behind it.      *)
(*                                                                         *)
(* One lifecycle thread ("main") calls start(), shutdown() and             *)
(* health_check(), as server.py:serve does; worker threads call acquire /  *)
(* release / engine(), as the RPC handlers do.  Each step between two      *)
(* reads or writes of shared state is one action, so every interleaving of *)
(* the threads at those points is explored.  Code that runs under _lock is *)
(* one step.  Exception classes are matched by name.                       *)
(***************************************************************************)
EXTENDS Integers, Sequences, FiniteSets, TLC

(* ---------------------------------------------------------------------- *)
(* Bounds                                                                  *)
(* ---------------------------------------------------------------------- *)
MaxSize == 2          \* pool sizes 1..MaxSize
MaxEngines == 2       \* StockfishEngine objects the pool ever creates: a pool
                      \* smaller than this has objects left for replacements
MaxTimeout == 1       \* acquire timeouts, in clock ticks, 0..MaxTimeout

MaxProcs == 2         \* processes one Stockfish16Engine ever spawns
MaxReaders == 2       \* reader threads of one Stockfish16Engine alive at once
MaxMultipv == 12      \* the largest multipv a caller of evaluate asks for

max_retries == 3      \* PoolConfig.max_retries

Workers == {"w1", "w2"}
Main == "main"
EngineIds == 1..MaxEngines
NoEngine == 0
None == -1            \* the Python None of an optional timeout argument
ProcIds == 1..MaxProcs
NoProc == 0
ReaderIds == 1..MaxReaders
NoReader == 0
Caller == "caller"

VARIABLES
    size,             \* PoolConfig.size
    p_engines,        \* EnginePool._engines   (list of engine ids)
    p_available,      \* EnginePool._available (FIFO queue of engine ids)
    p_shutdown,       \* EnginePool._shutdown
    p_started,        \* EnginePool._started
    handle,           \* StockfishEngine._engine per wrapper:
                      \*   "none" (None), "alive" (process running),
                      \*   "dead" (handle kept, process has exited)
    quits,            \* quit() calls received by the wrapper's current process
    nextId,           \* next unused engine id
    dropped,          \* engines release() removed from _engines since start()
    stranded,         \* tracked engines that an acquire dequeued and then
                      \*   abandoned when its _restart_engine raised
    pc,               \* per thread: position in the operation it executes
    op,               \* per worker: the caller of _restart_engine
    eng,              \* per worker: local variable `engine` / the engine held
    attempt,          \* per worker: loop variable of _restart_engine
    tmo,              \* per worker: ticks left before Queue.get times out
    raised,           \* per worker, while it releases: release() was called
                      \*   by engine() after its body raised
    reset,            \* per worker, while it releases: how new_game() ended
    idx,              \* loop variable i of start()
    last,             \* the call that returned or raised in the step that
                      \*   led to this state (NoEv when none did)
    s16_process,      \* Stockfish16Engine._process: a process id, or NoProc
    s16_version,      \* Stockfish16Engine._version: "none" (None) or a name
    proc,             \* per process: "unborn", "running", "exited"
    pkind,            \* per process: what the binary behind it does
    pout,             \* per process: the lines in its stdout pipe, unread
    cpc,              \* the caller of the wrapper: position in its call
    cret,             \* the caller: where the stop() under way returns to
    cfail,            \* the caller: the exception start() is failing with
    ctmo,             \* the caller: ticks left of thread.join(timeout)
    crd,              \* the caller: the reader thread its call has started
    cheld,            \* the process the wrapper held when the caller's
                      \*   latest call began
    rd,               \* per reader thread: the state of read_output()
    u_eval,           \* StockfishEngine.evaluate: the latest call, what it
                      \*   passed to the engine and what it returned
    u_req,            \* the request, and the engine's answer to it, that a run
                      \*   about evaluate is drawn for
    pe_lines,         \* the lines handed to parse_eval_output
    pe_result,        \* what parse_eval_output made of them: the breakdown
                      \*   returned, or the exception raised
    m_engine,         \* Stockfish16Manager._engine: an engine object, or
                      \*   NoObject (None)
    m_shutdown,       \* Stockfish16Manager._shutdown
    m_lock,           \* Stockfish16Manager._lock: the thread inside, or NoCaller
    m_pc,             \* per thread: position in its call of the manager
    m_op,             \* per thread: the method it is calling
    m_obj,            \* per engine object: its state and how often the
                      \*   manager started and stopped it
    m_trace,          \* per thread: what its call has done to engine objects
    m_ret,            \* m_trace of the call that returned or raised in the
                      \*   step that led to this state
    m_down,           \* a shutdown() has returned
    sv                \* per handler thread of the stockfish service: the
                      \*   evaluate() call of the request it is serving

poolv == <<p_engines, p_available, p_shutdown, p_started>>
engv == <<handle, quits, nextId>>
ghostv == <<dropped, stranded>>
locv == <<op, eng, attempt, tmo, raised, reset>>
s16v == <<s16_process, s16_version, proc, pkind, pout, cpc, cret, cfail, ctmo,
          crd, cheld, rd>>
poolside == <<size, poolv, engv, ghostv, pc, locv, idx>>
evalv == <<u_eval, u_req>>
parsev == <<pe_lines, pe_result>>
mgrv == <<m_engine, m_shutdown, m_lock, m_pc, m_op, m_obj, m_trace, m_ret, m_down>>
restv == <<evalv, parsev, mgrv, sv>>
vars == <<size, p_engines, p_available, p_shutdown, p_started, handle, quits,
          nextId, dropped, stranded, pc, op, eng, attempt, tmo, raised, reset, idx, last,
          s16_process, s16_version, proc, pkind, pout, cpc, cret, cfail, ctmo,
          crd, cheld, rd, restv>>

(* ---------------------------------------------------------------------- *)
(* List and queue operations of the code                                   *)
(* ---------------------------------------------------------------------- *)
Range(s) == {s[i] : i \in 1..Len(s)}

\* list.index(x): position of the first occurrence
IndexOf(s, x) == CHOOSE i \in 1..Len(s) : s[i] = x /\ \A j \in 1..(i-1) : s[j] # x

\* list.remove(x): drops the first occurrence
ListRemove(s, x) ==
    LET i == IndexOf(s, x)
    IN  SubSeq(s, 1, i-1) \o SubSeq(s, i+1, Len(s))

QueuePutLoses(q, x) == q
\* Queue.put(x)
QueuePut(q, x) == Append(q, x)

QueueGetKeeps(q) == q
\* Queue.get(): the queue after its head was taken
QueueGet(q) == Tail(q)

\* what a call reports when it returns or raises
Ev(t, o, out, via, e) ==
    [t |-> t, op |-> o, out |-> out, via |-> via, e |-> e,
     reset |-> "none", raised |-> FALSE, hc |-> <<0, 0, 0>>]
NoEv == Ev("none", "none", "none", "none", NoEngine)

(* ---------------------------------------------------------------------- *)
(* StockfishEngine                                                         *)
(* ---------------------------------------------------------------------- *)
\* is_alive(): a handle is held and the process has no return code
is_alive(h, e) == h[e] = "alive"

\* stop(): quit() is sent when a handle is held; the handle is cleared in
\* the finally clause whether quit() succeeded or raised
StopHandle(h, e) == [h EXCEPT ![e] = "none"]
StopQuits(q, h, e) == IF h[e] # "none" THEN [q EXCEPT ![e] = @ + 1] ELSE q

\* outcomes of start(): popen_uci and configure succeed; popen_uci raises
\* (binary missing, handshake failure); configure raises after popen_uci
\* returned, and the handle stays set
StartOutcomes == {"ok", "spawn_fail", "config_fail"}

\* start(): stops a held process first, then spawns
StartHandle(h, e, out) ==
    [h EXCEPT ![e] = IF out = "spawn_fail" THEN "none" ELSE "alive"]
StartQuits(q, h, e, out) ==
    IF out = "spawn_fail" THEN StopQuits(q, h, e) ELSE [q EXCEPT ![e] = 0]

\* new_game(): raises EngineError when no handle is held ("raised"); a
\* failure of the ucinewgame / ping exchange with a process that has exited
\* is logged and swallowed ("logged")
NewGame(h, e) ==
    IF h[e] = "none" THEN "raised"
    ELSE IF h[e] = "dead" THEN "logged"
    ELSE "ok"

(* ---------------------------------------------------------------------- *)
(* EnginePool.health_check                                                 *)
(* ---------------------------------------------------------------------- *)
HealthStatusCountsAll(engines, avail, h) ==
    [total |-> Len(engines), available |-> Len(avail), healthy |-> Len(engines)]
\* lines 296-307: total, available (qsize) and healthy (engines whose
\* is_alive() is true)
HealthStatus(engines, avail, h) ==
    [total |-> Len(engines),
     available |-> Len(avail),
     healthy |-> Cardinality({i \in 1..Len(engines) : is_alive(h, engines[i])})]

(* ---------------------------------------------------------------------- *)
(* Stockfish16Engine: the wrapper, its process and its reader threads      *)
(* ---------------------------------------------------------------------- *)
\* What the binary behind a process does:
\*   "sf16"   answers uci, isready and eval (with the classical table)
\*   "nnue"   answers uci and isready; its eval output has no table
\*   "hung"   answers uci and isready, then writes nothing and ignores quit
\*   "silent" stays alive and writes nothing, and ignores quit
Kinds == {"sf16", "nnue", "hung", "silent"}

\* the lines a process writes in answer to a command
Answer(kind, cmd) ==
    IF kind = "silent" THEN <<>>
    ELSE IF cmd = "uci" THEN <<"id name", "uciok">>
    ELSE IF cmd = "isready" THEN <<"readyok">>
    ELSE IF cmd = "eval"
         THEN IF kind = "sf16" THEN <<"Term White Black", "Total">>
              ELSE IF kind = "nnue" THEN <<"NNUE evaluation">>
              ELSE <<>>
    ELSE <<>>

\* a reader thread that does not exist (or has ended and been forgotten)
NoRd == [st |-> "free", kind |-> "none", term |-> "none", on |-> NoProc,
         res |-> <<>>, ineval |-> FALSE, done |-> FALSE, err |-> FALSE]

\* __init__ (lines 101-106), with no process spawned and no thread started
S16Init ==
    /\ s16_process = NoProc
    /\ s16_version = "none"
    /\ proc = [p \in ProcIds |-> "unborn"]
    /\ pkind = [p \in ProcIds |-> "silent"]
    /\ pout = [p \in ProcIds |-> <<>>]
    /\ cpc = "idle"
    /\ cret = "none"
    /\ cfail = "none"
    /\ ctmo = 0
    /\ crd = NoReader
    /\ cheld = NoProc
    /\ rd = [r \in ReaderIds |-> NoRd]

\* is_alive() (lines 118-122)
s16_is_alive(process, procs) ==
    IF process = NoProc THEN FALSE ELSE procs[process] = "running"

\* the version property (lines 113-116)
s16_version_of(version) == IF version = "none" THEN "not started" ELSE version

(* ---------------------------------------------------------------------- *)
(* StockfishEngine.evaluate: requests, engine answers and results          *)
(* ---------------------------------------------------------------------- *)
Min(a, b) == IF a < b THEN a ELSE b
Max(a, b) == IF a > b THEN a ELSE b

\* the multipv values a caller asks for
Multipvs == (0 - 1)..MaxMultipv

\* positions: a string chess.Board rejects, a position with white or with
\* black to move, and two positions (white to move) with no legal move
FenKinds == {"malformed", "white", "black", "checkmate", "stalemate"}
Terminal == {"checkmate", "stalemate"}
Turn(fen) == IF fen = "black" THEN "black" ELSE "white"

\* scores the engine reports, relative to the side to move: centipawns or
\* mate-in-v
RawScores ==
    {[mate |-> FALSE, v |-> 35], [mate |-> FALSE, v |-> 0 - 20],
     [mate |-> TRUE, v |-> 3], [mate |-> TRUE, v |-> 0 - 2]}
NoScore == [mate |-> FALSE, v |-> 0]

\* chess.engine.PovScore: a score relative to a side, and its views
Neg(sc) == [sc EXCEPT !.v = 0 - @]
PovWhite(pov) == IF pov.turn = "white" THEN pov.rel ELSE Neg(pov.rel)
PovBlack(pov) == IF pov.turn = "black" THEN pov.rel ELSE Neg(pov.rel)

ClampMultipvUpperOnly(m) == Min(m, 10)
\* line 211
ClampMultipv(m) == Max(1, Min(m, 10))

ParseInfoWhite(info, turn) ==
    LET pov == PovWhite(info.score)
    IN  [cp |-> IF pov.mate THEN 0 ELSE pov.v,
         mate |-> IF pov.mate THEN pov.v ELSE 0,
         best_line |-> info.pv]
\* _parse_info (lines 240-275) for an info that has a score
ParseInfo(info, turn) ==
    LET pov == IF turn = "white" THEN PovWhite(info.score) ELSE PovBlack(info.score)
    IN  [cp |-> IF pov.mate THEN 0 ELSE pov.v,
         mate |-> IF pov.mate THEN pov.v ELSE 0,
         best_line |-> info.pv]

\* lines 218-222: the infos without a score are left out
Results(infos, turn) ==
    LET scored == SelectSeq(infos, LAMBDA i : i.has)
    IN  [k \in 1..Len(scored) |-> ParseInfo(scored[k], turn)]

\* what the engine answers for a position: up to multipv infos, best
\* first; an info may come without a score; a position with no legal move
\* gets one info with no line, scored mate 0 or cp 0 or not at all
InfosFor(fen, n, s, miss) ==
    IF fen \in Terminal
    THEN <<[has |-> miss = "none",
            score |-> [rel |-> [mate |-> fen = "checkmate", v |-> 0],
                       turn |-> Turn(fen)],
            pv |-> 0]>>
    ELSE [i \in 1..n |->
            [has |-> ~(miss = "all" \/ (miss = "first" /\ i = 1)),
             score |-> [rel |-> IF s.mate THEN s ELSE [s EXCEPT !.v = @ - (i - 1)],
                        turn |-> Turn(fen)],
             pv |-> 2]]

NoEval ==
    [fen |-> "none", multipv |-> 0, passed |-> 0, infos |-> <<>>,
     out |-> "none", cp |-> 0, mate |-> 0, best_line |-> 0, alternatives |-> <<>>]

\* a request and what the engine will answer to it
Requests ==
    {r \in [fen : FenKinds, multipv : Multipvs, n : 1..10, s : RawScores,
            miss : {"none", "first", "all"}] :
        r.fen \in Terminal \cup {"malformed"} => r.n = 1 /\ r.s.v = 35}
NoReq == [fen |-> "none", multipv |-> 0, n |-> 0, s |-> NoScore, miss |-> "none"]

(* ---------------------------------------------------------------------- *)
(* parse_eval_output (stockfish16_service/eval_parser.py)                  *)
(* ---------------------------------------------------------------------- *)
\* Values are pawns in hundredths: 57 is the text +0.57.  A float is a
\* finite value or an infinity (what float() makes of a numeral beyond the
\* range of a double).
MaxLines == 2

Fl(v) == [inf |-> FALSE, v |-> v]
Infinity == [inf |-> TRUE, v |-> 0]
Zero == Fl(0)

\* a cell of a row as written: nothing, a numeral the row pattern accepts
\* (sign, digits, point, digits), a numeral of that shape too large for a
\* double, or text the pattern has no group for (abc, 5, n/a)
Blank == [k |-> "blank", v |-> 0]
Bad == [k |-> "bad", v |-> 0]
Huge == [k |-> "huge", v |-> 0]
Num(v) == [k |-> "num", v |-> v]

\* a group of the pattern: None, or the text of a numeral
None_ == Blank

\* _parse_float: None or blank is 0.0, float(value) otherwise, 0.0 when
\* float() raises ValueError
_parse_float(c) ==
    CASE c.k = "blank" -> Zero
      [] c.k = "bad" -> Zero
      [] c.k = "huge" -> Infinity
      [] OTHER -> Fl(c.v)

\* the text between two bars as the pattern sees it: the cells that are
\* not blank, in order (blanks are whitespace, which \s* consumes)
Tokens(col) == SelectSeq(col, LAMBDA c : c.k # "blank")

\* the two optional groups of a column against its tokens: the first group
\* takes the first numeral whichever cell it stands in
Groups(col) ==
    LET t == Tokens(col) IN
    <<IF Len(t) >= 1 /\ t[1].k # "bad" THEN t[1] ELSE None_,
      IF Len(t) >= 2 /\ t[1].k # "bad" /\ t[2].k # "bad" THEN t[2] ELSE None_>>

\* a column that ends at a bar matches only when the groups consume all of
\* it; the last column has no anchor and matches whatever follows
ColumnMatches(col) == \A k \in 1..Len(col) : col[k].k # "bad"

\* the lines of the input
TermNames == {"Mobility", "Total", "Tempo"}
Lower(name) ==
    CASE name = "Mobility" -> "mobility"
      [] name = "Total" -> "total"
      [] name = "Tempo" -> "tempo"
      [] OTHER -> name

Fields == {"mobility", "total"}
TERM_FIELD_MAP(term) == IF term \in Fields THEN term ELSE "none"

EmptyColumn == <<Blank, Blank>>
SideColumns ==
    { <<Num(45), Num(31)>>, <<Blank, Num(31)>>, <<Bad, Num(31)>>, EmptyColumn }
TotalColumns ==
    { <<Num(56), Num(41)>>, <<Num(57), Num(42)>>, <<Num(0 - 57), Num(0 - 42)>>,
      <<Num(0), Num(0)>>, EmptyColumn, <<Blank, Num(42)>>, <<Num(57), Blank>>,
      <<Bad, Num(42)>>, <<Num(57), Bad>>, <<Huge, Num(42)>> }

Row(term, w, b, t) ==
    [kind |-> "row", term |-> term, white |-> w, black |-> b, total |-> t]

\* a separator (---), the header (Term), the second header (MG), text the
\* row pattern does not match, and rows
Lines ==
    { [kind |-> k, term |-> "", white |-> EmptyColumn, black |-> EmptyColumn,
       total |-> EmptyColumn] : k \in {"separator", "header", "phases", "text"} }
    \cup { Row(n, w, EmptyColumn, t) : n \in TermNames, w \in SideColumns,
                                       t \in TotalColumns }
    \cup { Row(n, <<Num(45), Num(31)>>, <<Bad, Blank>>, <<Num(56), Num(41)>>) :
             n \in TermNames }

Inputs == UNION { [1..n -> Lines] : n \in 0..MaxLines }

\* ClassicalEvalResult(): every breakdown zero, final_eval_cp 0
PhaseScore(mg, eg) == [mg |-> mg, eg |-> eg]
SideBreakdown(w, b, t) == [white |-> w, black |-> b, total |-> t]
ZeroBreakdown ==
    SideBreakdown(PhaseScore(Zero, Zero), PhaseScore(Zero, Zero),
                  PhaseScore(Zero, Zero))
ClassicalEvalResult == [f \in Fields |-> ZeroBreakdown]

\* lines 73-74: a line with ---, Term or MG in it is skipped
Skipped(line) == line.kind \in {"separator", "header", "phases"}

\* EVAL_ROW_PATTERN.match(line)
RowMatches(line) ==
    /\ line.kind = "row"
    /\ ColumnMatches(line.white)
    /\ ColumnMatches(line.black)

\* lines 88-100: the breakdown of a matched row
BreakdownOf(line) ==
    LET w == Groups(line.white)
        b == Groups(line.black)
        t == Groups(line.total)
    IN SideBreakdown(PhaseScore(_parse_float(w[1]), _parse_float(w[2])),
                     PhaseScore(_parse_float(b[1]), _parse_float(b[2])),
                     PhaseScore(_parse_float(t[1]), _parse_float(t[2])))

\* whether the loop body reaches setattr for a line, and on which field
Applies(line) ==
    /\ ~Skipped(line)
    /\ RowMatches(line)
    /\ TERM_FIELD_MAP(Lower(line.term)) # "none"

\* one turn of the loop at lines 71-103
ParseLine(result, line) ==
    IF Applies(line)
    THEN [result EXCEPT ![TERM_FIELD_MAP(Lower(line.term))] = BreakdownOf(line)]
    ELSE result

RECURSIVE ParseLines(_, _)
ParseLines(result, lines) ==
    IF lines = <<>> THEN result
    ELSE ParseLines(ParseLine(result, Head(lines)), Tail(lines))

\* int(x) of the float x = s / 2: truncation toward zero
IntOfHalf(s) == IF s >= 0 THEN s \div 2 ELSE 0 - ((0 - s) \div 2)

\* round(x) of the float x = s / 2: to the nearest integer, a half to the
\* even neighbour
RoundOfHalf(s) ==
    IF s % 2 = 0 THEN s \div 2
    ELSE IF ((s - 1) \div 2) % 2 = 0 THEN (s - 1) \div 2 ELSE (s + 1) \div 2

\* lines 107-110: final_eval_cp from the total row; int() of an infinity
\* raises OverflowError
FinalEval(total) ==
    IF total.mg = Zero /\ total.eg = Zero THEN [out |-> "ok", cp |-> 0]
    ELSE IF total.mg.inf \/ total.eg.inf THEN [out |-> "OverflowError", cp |-> 0]
    ELSE [out |-> "ok", cp |-> IntOfHalf(total.mg.v + total.eg.v)]

NoParse == [out |-> "none", terms |-> ClassicalEvalResult, final_eval_cp |-> 0]

parse_eval_output(lines) ==
    LET result == ParseLines(ClassicalEvalResult, lines)
        final == FinalEval(result["total"].total)
    IN [out |-> final.out, terms |-> result, final_eval_cp |-> final.cp]

(* ---------------------------------------------------------------------- *)
(* Stockfish16Manager (stockfish16_service/pool.py): state                 *)
(* ---------------------------------------------------------------------- *)
\* The threads calling into one manager, and the Stockfish16Engine objects
\* it constructs over a run.  An object is seen through the four methods
\* the manager calls on it (start, stop, is_alive, get_classical_eval).
MCallers == {"m1", "m2"}
NoCaller == "nobody"
MaxObjects == 3
Objects == 1..MaxObjects
NoObject == 0

\* an engine object: "unborn" (not constructed), "new" (constructed, no
\* process), "alive", "dead" (its process has exited), "failed" (start()
\* raised), "stopped" (stop() has run); who constructed it; how often the
\* manager called start() and stop() on it
NoObj == [state |-> "unborn", by |-> "none", starts |-> 0, stops |-> 0]
Constructed(objs) == {e \in Objects : objs[e].state # "unborn"}
NewObject(objs) == Cardinality(Constructed(objs)) + 1
Construct(objs, by) ==
    [objs EXCEPT ![NewObject(objs)] = [NoObj EXCEPT !.state = "new", !.by = by]]
obj_is_alive(objs, e) == objs[e].state = "alive"

\* Stockfish16Engine.start(): it returns with a live process, returns with
\* a process that has already exited, or raises EngineStartupError
ObjStartOutcomes == {"alive", "dead", "raise"}
obj_start(objs, e, o) ==
    [objs EXCEPT ![e].state = IF o = "raise" THEN "failed" ELSE o,
                 ![e].starts = @ + 1]

\* Stockfish16Engine.stop(): never raises, the process is gone afterwards
obj_stop(objs, e) ==
    [objs EXCEPT ![e].state = "stopped", ![e].stops = @ + 1]

\* Stockfish16Engine.get_classical_eval(): a live engine answers, fails
\* and stays alive (timeout), or dies over the request; any other raises
ObjEvalOutcomes(objs, e) ==
    IF obj_is_alive(objs, e) THEN {"ok", "error", "died"} ELSE {"error"}
obj_eval(objs, e, o) ==
    IF o = "died" THEN [objs EXCEPT ![e].state = "dead"] ELSE objs

\* what one call did to engine objects: the engine the manager held when
\* the call tested it and the state it found it in, the objects it stopped, constructed and started, the object it sent the
\* request to
NoTrace ==
    [c |-> NoCaller, held |-> NoObject, found |-> "none", stops |-> <<>>,
     made |-> <<>>, started |-> <<>>, asked |-> NoObject]

(* ---------------------------------------------------------------------- *)
(* StockfishServiceImpl.Evaluate (stockfish_service/server.py): state      *)
(* ---------------------------------------------------------------------- *)
\* a request in a handler thread: how the evaluate() call in the body of
\* "with self._pool.engine()" ended ("none": not made yet), what made it
\* raise, and how many times the handler has called evaluate() for it
NoServe == [out |-> "none", via |-> "none", calls |-> 0]

\* __init__: no engine, not shut down, the lock free
ManagerInit ==
    /\ m_engine = NoObject
    /\ m_shutdown = FALSE
    /\ m_lock = NoCaller
    /\ m_pc = [c \in MCallers |-> "idle"]
    /\ m_op = [c \in MCallers |-> "none"]
    /\ m_obj = [e \in Objects |-> NoObj]
    /\ m_trace = [c \in MCallers |-> NoTrace]
    /\ m_ret = NoTrace
    /\ m_down = FALSE

RestInit ==
    /\ u_eval = NoEval
    /\ u_req = NoReq
    /\ pe_lines = <<>>
    /\ pe_result = NoParse
    /\ ManagerInit
    /\ sv = [w \in Workers |-> NoServe]

(* ---------------------------------------------------------------------- *)
(* Initial state: the pool as constructed by __init__                      *)
(* ---------------------------------------------------------------------- *)
PoolInit ==
    /\ size \in 1..MaxSize
    /\ p_engines = <<>>
    /\ p_available = <<>>
    /\ p_shutdown = FALSE
    /\ p_started = FALSE
    /\ handle = [e \in EngineIds |-> "none"]
    /\ quits = [e \in EngineIds |-> 0]
    /\ nextId = 1
    /\ dropped = 0
    /\ stranded = {}
    /\ pc = [t \in Workers \cup {Main} |-> "idle"]
    /\ op = [w \in Workers |-> "none"]
    /\ eng = [w \in Workers |-> NoEngine]
    /\ attempt = [w \in Workers |-> 0]
    /\ tmo = [w \in Workers |-> 0]
    /\ raised = [w \in Workers |-> FALSE]
    /\ reset = [w \in Workers |-> "none"]
    /\ idx = 0
    /\ last = NoEv

Init == PoolInit /\ S16Init /\ RestInit

(* ---------------------------------------------------------------------- *)
(* _cleanup_engines: under _lock, stop every tracked engine, clear the     *)
(* list, drain the queue                                                   *)
(* ---------------------------------------------------------------------- *)
CleanupHandleKeeps(h, engines) == h
CleanupHandle(h, engines) ==
    [e \in EngineIds |-> IF e \in Range(engines) THEN "none" ELSE h[e]]
CleanupQuits(q, h, engines) ==
    [e \in EngineIds |->
        IF e \in Range(engines) /\ h[e] # "none" THEN q[e] + 1 ELSE q[e]]

(* ---------------------------------------------------------------------- *)
(* EnginePool.start                                                        *)
(* ---------------------------------------------------------------------- *)
StartAlreadyNever(started) == FALSE
\* line 102
StartAlready(started) == started

\* lines 102-109: the two guards
Start_Check ==
    /\ pc[Main] = "idle"
    /\ IF StartAlready(p_started)
       THEN /\ last' = Ev(Main, "start", "noop", "none", NoEngine)
            /\ UNCHANGED <<pc, idx>>
       ELSE IF p_shutdown
       THEN /\ last' = Ev(Main, "start", "PoolShutdownError", "none", NoEngine)
            /\ UNCHANGED <<pc, idx>>
       ELSE /\ pc' = [pc EXCEPT ![Main] = "start_loop"]
            /\ idx' = 0
            /\ last' = NoEv
    /\ UNCHANGED <<restv, s16v, size, poolv, engv, ghostv, locv>>

\* lines 111-116: one iteration whose _create_engine succeeds
Start_Create ==
    /\ pc[Main] = "start_loop"
    /\ idx < size
    /\ nextId <= MaxEngines
    /\ handle' = StartHandle(handle, nextId, "ok")
    /\ quits' = StartQuits(quits, handle, nextId, "ok")
    /\ p_engines' = Append(p_engines, nextId)
    /\ p_available' = QueuePut(p_available, nextId)
    /\ nextId' = nextId + 1
    /\ idx' = idx + 1
    /\ last' = NoEv
    /\ UNCHANGED <<restv, s16v, size, p_shutdown, p_started, ghostv, pc, locv>>

\* lines 117-121: _create_engine raises; the wrapper whose start() failed
\* was never tracked and is dropped; _cleanup_engines, then EngineError
Start_Fail ==
    /\ pc[Main] = "start_loop"
    /\ idx < size
    /\ handle' = CleanupHandle(handle, p_engines)
    /\ quits' = CleanupQuits(quits, handle, p_engines)
    /\ p_engines' = <<>>
    /\ p_available' = <<>>
    /\ dropped' = 0
    /\ stranded' = {}
    /\ pc' = [pc EXCEPT ![Main] = "idle"]
    /\ last' = Ev(Main, "start", "EngineError", "none", NoEngine)
    /\ UNCHANGED <<restv, s16v, size, p_shutdown, p_started, nextId, locv, idx>>

\* lines 123-127: the loop is over
Start_Done ==
    /\ pc[Main] = "start_loop"
    /\ idx = size
    /\ p_started' = TRUE
    /\ pc' = [pc EXCEPT ![Main] = "idle"]
    /\ last' = Ev(Main, "start", "ok", "none", NoEngine)
    /\ UNCHANGED <<restv, s16v, size, p_engines, p_available, p_shutdown, engv, ghostv,
                   locv, idx>>

(* ---------------------------------------------------------------------- *)
(* EnginePool.shutdown                                                     *)
(* ---------------------------------------------------------------------- *)
ShutdownAlreadyNever(flag) == FALSE
\* line 135
ShutdownAlready(flag) == flag

\* lines 135-139: return at once when already shut down, else set the flag
Shutdown_Mark ==
    /\ pc[Main] = "idle"
    /\ IF ShutdownAlready(p_shutdown)
       THEN /\ last' = Ev(Main, "shutdown", "noop", "none", NoEngine)
            /\ UNCHANGED <<pc, p_shutdown>>
       ELSE /\ p_shutdown' = TRUE
            /\ pc' = [pc EXCEPT ![Main] = "shutdown_wait"]
            /\ last' = NoEv
    /\ UNCHANGED <<restv, s16v, size, p_engines, p_available, p_started, engv, ghostv,
                   locv, idx>>

\* lines 143-148: after the wait, _cleanup_engines and _started = False
Shutdown_Cleanup ==
    /\ pc[Main] = "shutdown_wait"
    /\ handle' = CleanupHandle(handle, p_engines)
    /\ quits' = CleanupQuits(quits, handle, p_engines)
    /\ p_engines' = <<>>
    /\ p_available' = <<>>
    /\ p_started' = FALSE
    /\ dropped' = 0
    /\ stranded' = {}
    /\ pc' = [pc EXCEPT ![Main] = "idle"]
    /\ last' = Ev(Main, "shutdown", "ok", "none", NoEngine)
    /\ UNCHANGED <<restv, s16v, size, p_shutdown, nextId, locv, idx>>

(* ---------------------------------------------------------------------- *)
(* EnginePool.acquire                                                      *)
(* ---------------------------------------------------------------------- *)
\* PoolConfig.acquire_timeout, in ticks
acquire_timeout == MaxTimeout

ResolveTimeoutKeepsNone(t) == t
\* line 192: timeout if timeout is not None else acquire_timeout
ResolveTimeout(t) == IF t = None THEN acquire_timeout ELSE t

Timeouts == {None} \cup (0..MaxTimeout)

AcquireGuardStartedOnly(shutdown, started) ==
    IF ~started THEN "PoolShutdownError" ELSE "none"
\* the exception acquire raises at lines 186-190, or "none"
AcquireGuard(shutdown, started) ==
    IF shutdown THEN "PoolShutdownError"
    ELSE IF ~started THEN "PoolShutdownError"
    ELSE "none"

\* lines 186-192; acquire is called by the caller or by engine() (line 250)
Acquire_Check(c, t) ==
    /\ pc[c] = "idle"
    /\ IF AcquireGuard(p_shutdown, p_started) # "none"
       THEN /\ last' = Ev(c, "acquire", AcquireGuard(p_shutdown, p_started),
                          "none", NoEngine)
            /\ UNCHANGED <<pc, tmo>>
       ELSE /\ pc' = [pc EXCEPT ![c] = "acq_get"]
            /\ tmo' = [tmo EXCEPT ![c] = ResolveTimeout(t)]
            /\ last' = NoEv
    /\ UNCHANGED <<restv, s16v, size, poolv, engv, ghostv, op, eng, attempt, raised, reset, idx>>

GetNeverReady(q) == FALSE
\* line 195: Queue.get(timeout) returns as soon as the queue holds an item
GetReady(q) == q # <<>>

\* line 195: Queue.get(timeout) takes the head of the queue
Acquire_Get(c) ==
    /\ pc[c] = "acq_get"
    /\ GetReady(p_available)
    /\ eng' = [eng EXCEPT ![c] = Head(p_available)]
    /\ p_available' = QueueGet(p_available)
    /\ pc' = [pc EXCEPT ![c] = "acq_alive"]
    /\ tmo' = [tmo EXCEPT ![c] = 0]
    /\ last' = NoEv
    /\ UNCHANGED <<restv, s16v, size, p_engines, p_shutdown, p_started, engv, ghostv, op,
                   attempt, raised, reset, idx>>

\* line 195: the queue is empty and the timeout has not elapsed: time
\* passes.  Queue.get(timeout=None) would wait without a deadline.
Acquire_Wait(c) ==
    /\ pc[c] = "acq_get"
    /\ ~GetReady(p_available)
    /\ tmo[c] > 0
    /\ tmo' = [tmo EXCEPT ![c] = @ - 1]
    /\ last' = NoEv
    /\ UNCHANGED <<restv, s16v, size, poolv, engv, ghostv, pc, op, eng, attempt, raised,
                   reset, idx>>

\* lines 196-197: the queue is empty when the timeout elapses
Acquire_Timeout(c) ==
    /\ pc[c] = "acq_get"
    /\ ~GetReady(p_available)
    /\ tmo[c] = 0
    /\ pc' = [pc EXCEPT ![c] = "idle"]
    /\ last' = Ev(c, "acquire", "PoolExhaustedError", "none", NoEngine)
    /\ UNCHANGED <<restv, s16v, size, poolv, engv, ghostv, locv, idx>>

\* lines 200-204: a live engine is returned, a dead one goes to
\* _restart_engine
Acquire_Alive(c) ==
    /\ pc[c] = "acq_alive"
    /\ IF is_alive(handle, eng[c])
       THEN /\ pc' = [pc EXCEPT ![c] = "holding"]
            /\ last' = Ev(c, "acquire", "ok", "alive", eng[c])
            /\ UNCHANGED op
       ELSE /\ pc' = [pc EXCEPT ![c] = "rs_stop"]
            /\ op' = [op EXCEPT ![c] = "acquire"]
            /\ last' = NoEv
    /\ UNCHANGED <<restv, s16v, size, poolv, engv, ghostv, eng, attempt, tmo, raised,
                   reset, idx>>

(* ---------------------------------------------------------------------- *)
(* EnginePool._restart_engine                                              *)
(* ---------------------------------------------------------------------- *)
\* lines 265-269
Restart_Stop(c) ==
    /\ pc[c] = "rs_stop"
    /\ handle' = StopHandle(handle, eng[c])
    /\ quits' = StopQuits(quits, handle, eng[c])
    /\ attempt' = [attempt EXCEPT ![c] = 0]
    /\ pc' = [pc EXCEPT ![c] = "rs_try"]
    /\ last' = NoEv
    /\ UNCHANGED <<restv, s16v, size, poolv, nextId, ghostv, op, eng, tmo, raised, reset, idx>>

\* what the caller of _restart_engine does with the engine it returns:
\* acquire returns it (line 204), release goes on to put it (line 234)
RestartReturns(c, e, via) ==
    /\ eng' = [eng EXCEPT ![c] = e]
    /\ attempt' = [attempt EXCEPT ![c] = 0]
    /\ op' = [op EXCEPT ![c] = "none"]
    /\ IF op[c] = "acquire"
       THEN /\ pc' = [pc EXCEPT ![c] = "holding"]
            /\ last' = Ev(c, "acquire", "ok", via, e)
       ELSE /\ pc' = [pc EXCEPT ![c] = "rel_put"]
            /\ last' = NoEv

\* lines 270-276: one iteration of the retry loop; start() succeeds and the
\* same engine is returned, or start() raises and the loop goes on
Restart_Try(c) ==
    /\ pc[c] = "rs_try"
    /\ attempt[c] < max_retries
    /\ \E out \in StartOutcomes :
        /\ handle' = StartHandle(handle, eng[c], out)
        /\ quits' = StartQuits(quits, handle, eng[c], out)
        /\ IF out = "ok"
           THEN RestartReturns(c, eng[c], "restarted")
           ELSE /\ attempt' = [attempt EXCEPT ![c] = @ + 1]
                /\ last' = NoEv
                /\ UNCHANGED <<pc, op, eng>>
    /\ UNCHANGED <<restv, s16v, size, poolv, nextId, ghostv, tmo, raised, reset, idx>>

SwapTrackedAppends(engines, old, new) == Append(engines, new)
\* lines 283-286: under _lock, the new engine takes the old one's index
SwapTracked(engines, old, new) ==
    IF old \in Range(engines)
    THEN [engines EXCEPT ![IndexOf(engines, old)] = new]
    ELSE engines

ReplacementResultOld(old, new) == old
\* line 288: return new_engine
ReplacementResult(old, new) == new

\* lines 278-288: every retry failed; _create_engine succeeds, the new
\* engine is swapped into the tracked list and returned
Restart_Replace(c) ==
    /\ pc[c] = "rs_try"
    /\ attempt[c] >= max_retries
    /\ nextId <= MaxEngines
    /\ handle' = StartHandle(handle, nextId, "ok")
    /\ quits' = StartQuits(quits, handle, nextId, "ok")
    /\ nextId' = nextId + 1
    /\ p_engines' = SwapTracked(p_engines, eng[c], nextId)
    /\ RestartReturns(c, ReplacementResult(eng[c], nextId), "replaced")
    /\ UNCHANGED <<restv, s16v, size, p_available, p_shutdown, p_started, ghostv, tmo,
                   raised, reset, idx>>

DropTrackedKeeps(engines, e) == engines
\* lines 229-231: under _lock, the engine is dropped from the tracked list
DropTracked(engines, e) ==
    IF e \in Range(engines) THEN ListRemove(engines, e) ELSE engines

\* how the call that contains release() ends for the caller
ReleaseOut(r) == IF r THEN "BodyError" ELSE "ok"

RelEv(c, via) ==
    [Ev(c, "release", ReleaseOut(raised[c]), via, eng[c])
        EXCEPT !.reset = reset[c], !.raised = raised[c]]

\* line 280: _create_engine raises, and so does _restart_engine.
\* In acquire the exception reaches the caller (the dequeued engine stays
\* in _engines); in release it is caught at line 226 and the engine is
\* dropped from the tracked list (lines 227-232).
Restart_ReplaceFail(c) ==
    /\ pc[c] = "rs_try"
    /\ attempt[c] >= max_retries
    /\ IF op[c] = "acquire"
       THEN /\ last' = Ev(c, "acquire", "EngineStartupError", "failed", eng[c])
            /\ stranded' = IF eng[c] \in Range(p_engines)
                           THEN stranded \cup {eng[c]} ELSE stranded
            /\ UNCHANGED <<p_engines, dropped>>
       ELSE /\ last' = RelEv(c, "dropped")
            /\ p_engines' = DropTracked(p_engines, eng[c])
            /\ dropped' = IF eng[c] \in Range(p_engines)
                          THEN dropped + 1 ELSE dropped
            /\ UNCHANGED stranded
    /\ pc' = [pc EXCEPT ![c] = "idle"]
    /\ op' = [op EXCEPT ![c] = "none"]
    /\ eng' = [eng EXCEPT ![c] = NoEngine]
    /\ attempt' = [attempt EXCEPT ![c] = 0]
    /\ raised' = [raised EXCEPT ![c] = FALSE]
    /\ reset' = [reset EXCEPT ![c] = "none"]
    /\ UNCHANGED <<restv, s16v, size, p_available, p_shutdown, p_started, engv, tmo, idx>>

(* ---------------------------------------------------------------------- *)
(* The holder of an engine                                                 *)
(* ---------------------------------------------------------------------- *)
\* the holder calls StockfishEngine.stop() (a public method) on the engine
\* it holds: the wrapper then holds no process, and new_game() raises when
\* the engine is released
Holder_Stop(c) ==
    /\ pc[c] = "holding"
    /\ handle[eng[c]] # "none"
    /\ handle' = StopHandle(handle, eng[c])
    /\ quits' = StopQuits(quits, handle, eng[c])
    /\ last' = NoEv
    /\ UNCHANGED <<restv, s16v, size, poolv, nextId, ghostv, pc, locv, idx>>

ReleasesOnExitOnlyOnReturn(body_raised) == ~body_raised
\* engine(): the finally clause of lines 251-254 releases the engine
\* whether the body returned or raised
ReleasesOnExit(body_raised) == TRUE

(* ---------------------------------------------------------------------- *)
(* EnginePool.release                                                      *)
(* ---------------------------------------------------------------------- *)
ReleaseDiscardsNever(shutdown) == FALSE
\* line 212
ReleaseDiscards(shutdown) == shutdown

\* lines 212-216.  release() is called by the holder or by engine() when
\* its body returns (r = FALSE), or by engine() when its body raises
\* (r = TRUE).  On a pool that is shutting down the engine is stopped.
Release_Check(c, r) ==
    /\ pc[c] = "holding"
    /\ IF ~ReleasesOnExit(r)
       THEN /\ pc' = [pc EXCEPT ![c] = "idle"]
            /\ last' = [Ev(c, "release", "BodyError", "unreleased", eng[c])
                            EXCEPT !.raised = r]
            /\ eng' = [eng EXCEPT ![c] = NoEngine]
            /\ UNCHANGED <<handle, quits, raised>>
       ELSE IF ReleaseDiscards(p_shutdown)
       THEN /\ handle' = StopHandle(handle, eng[c])
            /\ quits' = StopQuits(quits, handle, eng[c])
            /\ pc' = [pc EXCEPT ![c] = "idle"]
            /\ last' = [Ev(c, "release", ReleaseOut(r), "stopped", eng[c])
                            EXCEPT !.raised = r]
            /\ eng' = [eng EXCEPT ![c] = NoEngine]
            /\ UNCHANGED raised
       ELSE /\ pc' = [pc EXCEPT ![c] = "rel_newgame"]
            /\ raised' = [raised EXCEPT ![c] = r]
            /\ last' = NoEv
            /\ UNCHANGED <<handle, quits, eng>>
    /\ UNCHANGED <<restv, s16v, size, poolv, nextId, ghostv, op, attempt, tmo, reset, idx>>

\* lines 219-225: new_game(); EngineError sends the engine to
\* _restart_engine
Release_NewGame(c) ==
    /\ pc[c] = "rel_newgame"
    /\ reset' = [reset EXCEPT ![c] = NewGame(handle, eng[c])]
    /\ IF NewGame(handle, eng[c]) = "raised"
       THEN /\ pc' = [pc EXCEPT ![c] = "rs_stop"]
            /\ op' = [op EXCEPT ![c] = "release"]
       ELSE /\ pc' = [pc EXCEPT ![c] = "rel_put"]
            /\ UNCHANGED op
    /\ last' = NoEv
    /\ UNCHANGED <<restv, s16v, size, poolv, engv, ghostv, eng, attempt, tmo, raised, idx>>

\* line 234
Release_Put(c) ==
    /\ pc[c] = "rel_put"
    /\ p_available' = QueuePut(p_available, eng[c])
    /\ pc' = [pc EXCEPT ![c] = "idle"]
    /\ last' = RelEv(c, "requeued")
    /\ eng' = [eng EXCEPT ![c] = NoEngine]
    /\ raised' = [raised EXCEPT ![c] = FALSE]
    /\ reset' = [reset EXCEPT ![c] = "none"]
    /\ UNCHANGED <<restv, s16v, size, p_engines, p_shutdown, p_started, engv, ghostv, op,
                   attempt, tmo, idx>>

(* ---------------------------------------------------------------------- *)
(* EnginePool.health_check (lines 296-307), between two lifecycle calls    *)
(* ---------------------------------------------------------------------- *)
HealthCheck ==
    /\ pc[Main] = "idle"
    /\ LET hs == HealthStatus(p_engines, p_available, handle)
       IN  last' = [Ev(Main, "health_check", "ok", "none", NoEngine)
                        EXCEPT !.hc = <<hs.total, hs.available, hs.healthy>>]
    /\ UNCHANGED <<restv, s16v, size, poolv, engv, ghostv, pc, locv, idx>>

(* ---------------------------------------------------------------------- *)
(* The environment: the process behind a wrapper exits.  The exit of a     *)
(* process that _restart_engine is about to stop (every start() stops the  *)
(* held process first) changes nothing the pool reads, and is left out.    *)
(* ---------------------------------------------------------------------- *)
Referenced ==
    Range(p_engines) \cup Range(p_available) \cup {eng[w] : w \in Workers}

Crash(e) ==
    /\ e \in Referenced
    /\ handle[e] = "alive"
    /\ \A w \in Workers : pc[w] \in {"rs_stop", "rs_try"} => eng[w] # e
    /\ handle' = [handle EXCEPT ![e] = "dead"]
    /\ last' = NoEv
    /\ UNCHANGED <<restv, s16v, size, poolv, quits, nextId, ghostv, pc, locv, idx>>

Next ==
    \/ Start_Check
    \/ Start_Create
    \/ Start_Fail
    \/ Start_Done
    \/ Shutdown_Mark
    \/ Shutdown_Cleanup
    \/ \E c \in Workers, t \in Timeouts : Acquire_Check(c, t)
    \/ \E c \in Workers : Acquire_Get(c)
    \/ \E c \in Workers : Acquire_Wait(c)
    \/ \E c \in Workers : Acquire_Timeout(c)
    \/ \E c \in Workers : Acquire_Alive(c)
    \/ \E c \in Workers : Restart_Stop(c)
    \/ \E c \in Workers : Restart_Try(c)
    \/ \E c \in Workers : Restart_Replace(c)
    \/ \E c \in Workers : Restart_ReplaceFail(c)
    \/ \E c \in Workers : Holder_Stop(c)
    \/ \E c \in Workers, r \in BOOLEAN : Release_Check(c, r)
    \/ \E c \in Workers : Release_NewGame(c)
    \/ \E c \in Workers : Release_Put(c)
    \/ HealthCheck
    \/ \E e \in EngineIds : Crash(e)

Spec == Init /\ [][Next]_vars

(* ---------------------------------------------------------------------- *)
(* Scheduling: every thread that can take a step eventually takes one.     *)
(* A worker that holds nothing can always call acquire, so under this      *)
(* specification the pool keeps being used; a start() or shutdown() under  *)
(* way runs to its end.  Nothing forces the lifecycle thread to call       *)
(* shutdown, and nothing forces a process to exit.                         *)
(* ---------------------------------------------------------------------- *)
WorkerNext(c) ==
    \/ \E t \in Timeouts : Acquire_Check(c, t)
    \/ Acquire_Get(c)
    \/ Acquire_Wait(c)
    \/ Acquire_Timeout(c)
    \/ Acquire_Alive(c)
    \/ Restart_Stop(c)
    \/ Restart_Try(c)
    \/ Restart_Replace(c)
    \/ Restart_ReplaceFail(c)
    \/ \E r \in BOOLEAN : Release_Check(c, r)
    \/ Release_NewGame(c)
    \/ Release_Put(c)

LifecycleNext == Start_Create \/ Start_Fail \/ Start_Done \/ Shutdown_Cleanup

FairSpec ==
    /\ Init
    /\ [][Next]_vars
    /\ \A c \in Workers : WF_vars(WorkerNext(c))
    /\ WF_vars(LifecycleNext)


(* ====================================================================== *)
(* Stockfish16Engine: one caller, the process and the reader threads       *)
(* ====================================================================== *)
\* join timeouts, in ticks: engine_startup_timeout, the 5.0 of the ready
\* check, the 10.0 of the eval read and the 2.0 of wait() are all finite,
\* and each is one allowance of ticks here
join_forever == None
join_timeout == MaxTimeout

S16Ev(o, out, via, p) == Ev(Caller, o, out, via, p)

\* what a running process does with a command written to its stdin: it
\* answers, or it dies on it and writes nothing
SendOutcomes == {"answered", "died"}

ProcAfterSend(procs, p, kind, cmd, o) ==
    IF o = "died" \/ (cmd = "quit" /\ kind \notin {"silent", "hung"})
    THEN [procs EXCEPT ![p] = "exited"]
    ELSE procs

PipeAfterSend(pipes, p, kind, cmd, o) ==
    IF o = "answered" THEN [pipes EXCEPT ![p] = @ \o Answer(kind, cmd)] ELSE pipes

\* _send() (lines 223-229) raises when no process is held (EngineError) or
\* when the pipe to an exited process is written (BrokenPipeError)
SendRaises(process, procs) ==
    IF process = NoProc THEN "EngineError"
    ELSE IF procs[process] # "running" THEN "BrokenPipeError"
    ELSE "none"

FreeReaders == {r \in ReaderIds : rd[r].st = "free"}

\* threading.Thread(target=read_output).start() (lines 255-256, 303-304)
\* the thread's first look at self._process finds what its starter, who
\* is waiting in join() by then, has just checked (lines 235, 270)
NewReader(kind, term) ==
    [st |-> "block", kind |-> kind, term |-> term, on |-> s16_process,
     res |-> <<>>, ineval |-> FALSE, done |-> FALSE, err |-> FALSE]

\* a thread that ends while a join waits for it is kept for the joiner; a
\* thread nobody waits for is gone
EndReader(r, rec) ==
    IF r = crd THEN [rd EXCEPT ![r] = [rec EXCEPT !.st = "ended"]]
    ELSE [rd EXCEPT ![r] = NoRd]

\* the process exits on its own
Proc_Exit ==
    /\ \E p \in ProcIds :
        /\ proc[p] = "running"
        /\ proc' = [proc EXCEPT ![p] = "exited"]
    /\ last' = NoEv
    /\ UNCHANGED <<restv, poolside, cheld, s16_process, s16_version, pkind, pout, cpc, cret,
                   cfail, ctmo, crd, rd>>

\* read_output(): self._process.stdout is looked up anew in each iteration
\* (lines 244, 282); with no process held the lookup raises, which the
\* thread catches (lines 252-253, 299-301)
Reader_Bind(r) ==
    /\ rd[r].st = "bind"
    /\ IF s16_process = NoProc
       THEN rd' = EndReader(r, [rd[r] EXCEPT !.err = TRUE,
                                             !.done = (rd[r].kind = "eval") \/ @])
       ELSE rd' = [rd EXCEPT ![r].st = "block", ![r].on = s16_process]
    /\ last' = NoEv
    /\ UNCHANGED <<restv, poolside, cheld, s16_process, s16_version, proc, pkind, pout, cpc,
                   cret, cfail, ctmo, crd>>

\* the line loop of _read_until (lines 245-251)
UntilLine(rec, line) ==
    [rec EXCEPT !.res = Append(@, line),
                !.st = IF line = rec.term THEN "ended" ELSE "bind"]

IsHeader(line) == line = "Term White Black"
IsTotal(line) == line = "Total"

\* the line loop of _read_eval_output (lines 283-298)
EvalLine(rec, line) ==
    LET sec == rec.ineval \/ IsHeader(line)
    IN  [rec EXCEPT !.ineval = sec,
                    !.res = IF sec THEN Append(@, line) ELSE @,
                    !.done = @ \/ (sec /\ IsTotal(line)),
                    !.st = IF sec /\ IsTotal(line) THEN "ended" ELSE "bind"]

\* readline() returns the next line of the pipe, or "" at end of file:
\* the process has exited and the pipe is drained
Reader_Line(r) ==
    /\ rd[r].st = "block"
    /\ LET p == rd[r].on
       IN  IF pout[p] # <<>>
           THEN LET rec == IF rd[r].kind = "eval"
                           THEN EvalLine(rd[r], Head(pout[p]))
                           ELSE UntilLine(rd[r], Head(pout[p]))
                IN  /\ pout' = [pout EXCEPT ![p] = Tail(@)]
                    /\ rd' = IF rec.st = "ended" THEN EndReader(r, rec)
                             ELSE [rd EXCEPT ![r] = rec]
           ELSE /\ proc[p] = "exited"
                /\ pout' = pout
                /\ rd' = EndReader(r, rd[r])
    /\ last' = NoEv
    /\ UNCHANGED <<restv, poolside, cheld, s16_process, s16_version, proc, pkind, cpc, cret,
                   cfail, ctmo, crd>>

(* ---------------------------------------------------------------------- *)
(* Stockfish16Engine.stop() (lines 170-182)                                *)
(* ---------------------------------------------------------------------- *)
StopClearKeepsVersion(version) == version
\* the finally clause (lines 180-182)
StopClear(version) == "none"

\* where a finished stop() continues: stop() itself returns, or the start()
\* that called it goes on (line 128) or raises (lines 167-168)
AfterStop(p, how) ==
    /\ s16_process' = NoProc
    /\ s16_version' = StopClear(s16_version)
    /\ ctmo' = 0
    /\ cret' = "none"
    /\ IF cret = "start_spawn"
       THEN /\ cpc' = "start_spawn"
            /\ last' = NoEv
            /\ cfail' = cfail
       ELSE /\ cpc' = "idle"
            /\ cfail' = "none"
            /\ last' = IF cret = "start_raise"
                       THEN [S16Ev("start", "EngineStartupError", cfail, p)
                                EXCEPT !.raised = TRUE]
                       ELSE S16Ev("stop", "ok", how, p)

\* stop() called by the caller
S16_Stop ==
    /\ cpc = "idle"
    /\ IF s16_process = NoProc
       THEN /\ last' = S16Ev("stop", "ok", "noop", NoProc)
            /\ UNCHANGED <<cpc, cret>>
       ELSE /\ cpc' = "stop_quit"
            /\ cret' = "idle"
            /\ last' = NoEv
    /\ cheld' = s16_process
    /\ UNCHANGED <<restv, poolside, s16_process, s16_version, proc, pkind, pout,
                   cfail, ctmo, crd, rd>>

\* Popen.kill() (line 179)
Kill(procs, p) == [procs EXCEPT ![p] = "exited"]

\* _send("quit") (line 174): raises on an exited process, and the handler
\* kills (a no-op then) and the finally clause clears
S16_Stop_Quit ==
    /\ cpc = "stop_quit"
    /\ LET p == s16_process
       IN  IF SendRaises(p, proc) # "none"
           THEN /\ proc' = Kill(proc, p)
                /\ AfterStop(p, "quit_raised")
                /\ UNCHANGED pout
           ELSE /\ \E o \in SendOutcomes :
                    /\ proc' = ProcAfterSend(proc, p, pkind[p], "quit", o)
                    /\ pout' = PipeAfterSend(pout, p, pkind[p], "quit", o)
                /\ cpc' = "stop_wait"
                /\ ctmo' = join_timeout
                /\ last' = NoEv
                /\ UNCHANGED <<s16_process, s16_version, cret, cfail>>
    /\ UNCHANGED <<restv, poolside, cheld, pkind, crd, rd>>

\* wait(timeout=2.0) (line 175) returns once the process has exited
S16_Stop_Waited ==
    /\ cpc = "stop_wait"
    /\ proc[s16_process] = "exited"
    /\ AfterStop(s16_process, "exited")
    /\ UNCHANGED <<restv, poolside, cheld, proc, pkind, pout, crd, rd>>

S16_Stop_Tick ==
    /\ cpc = "stop_wait"
    /\ proc[s16_process] = "running"
    /\ ctmo > 0
    /\ ctmo' = ctmo - 1
    /\ last' = NoEv
    /\ UNCHANGED <<restv, poolside, cheld, s16_process, s16_version, proc, pkind, pout, cpc,
                   cret, cfail, crd, rd>>

\* wait() raises TimeoutExpired, the handler kills (lines 177-179)
S16_Stop_Kill ==
    /\ cpc = "stop_wait"
    /\ proc[s16_process] = "running"
    /\ ctmo = 0
    /\ proc' = Kill(proc, s16_process)
    /\ AfterStop(s16_process, "killed")
    /\ UNCHANGED <<restv, poolside, cheld, pkind, pout, crd, rd>>

Uci == 1              \* the engine id the wrapper on its own goes by

\* the two wrappers share nothing: a run exercises one of them
S16Untouched == cpc = "idle" /\ \A p \in ProcIds : proc[p] = "unborn"
UciUntouched == handle[Uci] = "none" /\ quits[Uci] = 0 /\ u_eval.out = "none"

(* ---------------------------------------------------------------------- *)
(* Stockfish16Engine.start() (lines 124-168)                               *)
(* ---------------------------------------------------------------------- *)
Unborn == {p \in ProcIds : proc[p] = "unborn"}

\* the except clause of lines 166-168: stop(), then EngineStartupError
StartFails(why) ==
    /\ cpc' = "stop_quit"
    /\ cret' = "start_raise"
    /\ cfail' = why
    /\ ctmo' = 0
    /\ last' = NoEv

\* thread.start() and the beginning of thread.join(timeout)
StartRead(kind, term, at) ==
    LET r == CHOOSE x \in FreeReaders : \A y \in FreeReaders : x <= y
    IN  /\ rd' = [rd EXCEPT ![r] = NewReader(kind, term)]
        /\ crd' = r
        /\ ctmo' = join_timeout
        /\ cpc' = at
        /\ last' = NoEv

\* line 126: a process is held, so start() stops it first
StopsFirst(process) == process # NoProc

S16_Start ==
    /\ cpc = "idle"
    /\ UciUntouched
    /\ FreeReaders # {}
    /\ IF StopsFirst(s16_process)
       THEN cpc' = "stop_quit" /\ cret' = "start_spawn"
       ELSE cpc' = "start_spawn" /\ cret' = cret
    /\ last' = NoEv
    /\ cheld' = s16_process
    /\ UNCHANGED <<restv, poolside, s16_process, s16_version, proc, pkind, pout,
                   cfail, ctmo, crd, rd>>

\* Popen (line 132) finds no binary: FileNotFoundError, lines 162-165
S16_Start_NotFound ==
    /\ cpc = "start_spawn"
    /\ cpc' = "idle"
    /\ last' = [S16Ev("start", "EngineStartupError", "not_found", s16_process)
                  EXCEPT !.raised = TRUE]
    /\ UNCHANGED <<restv, poolside, cheld, s16_process, s16_version, proc, pkind, pout,
                   cret, cfail, ctmo, crd, rd>>

\* Popen (line 132) spawns the next process
S16_Start_Spawn ==
    /\ cpc = "start_spawn"
    /\ Unborn # {}
    /\ LET p == CHOOSE x \in Unborn : \A y \in Unborn : x <= y
       IN  \E k \in Kinds :
            /\ proc' = [proc EXCEPT ![p] = "running"]
            /\ pkind' = [pkind EXCEPT ![p] = k]
            /\ s16_process' = p
    /\ cpc' = "start_uci"
    /\ last' = NoEv
    /\ UNCHANGED <<restv, poolside, cheld, s16_version, pout, cret, cfail, ctmo, crd, rd>>

\* _send(cmd) and then _read_until(term): lines 142-143 and 156-160
SendThenRead(cmd, term, at) ==
    LET p == s16_process
    IN  IF SendRaises(p, proc) # "none"
        THEN /\ StartFails(SendRaises(p, proc))
             /\ UNCHANGED <<proc, pout, crd, rd>>
        ELSE /\ \E o \in SendOutcomes :
                 /\ proc' = ProcAfterSend(proc, p, pkind[p], cmd, o)
                 /\ pout' = PipeAfterSend(pout, p, pkind[p], cmd, o)
             /\ StartRead("until", term, at)
             /\ UNCHANGED <<cret, cfail>>

S16_Start_Uci ==
    /\ cpc = "start_uci"
    /\ SendThenRead("uci", "uciok", "start_read_uci")
    /\ UNCHANGED <<restv, poolside, cheld, s16_process, s16_version, pkind>>

\* the setoption commands and isready (lines 154-160)
S16_Start_Config ==
    /\ cpc = "start_config"
    /\ SendThenRead("isready", "readyok", "start_read_ready")
    /\ UNCHANGED <<restv, poolside, cheld, s16_process, s16_version, pkind>>

\* thread.join(timeout) goes on waiting
S16_Join_Tick ==
    /\ cpc \in {"start_read_uci", "start_read_ready", "eval_read"}
    /\ rd[crd].st # "ended"
    /\ ctmo > 0
    /\ ctmo' = ctmo - 1
    /\ last' = NoEv
    /\ UNCHANGED <<restv, poolside, cheld, s16_process, s16_version, proc, pkind, pout, cpc,
                   cret, cfail, crd, rd>>

\* _read_until: the thread is still alive after the join (lines 259-260)
S16_Until_Timeout ==
    /\ cpc \in {"start_read_uci", "start_read_ready"}
    /\ rd[crd].st # "ended"
    /\ ctmo = 0
    /\ StartFails("timeout")
    /\ crd' = NoReader
    /\ UNCHANGED <<restv, poolside, cheld, s16_process, s16_version, proc, pkind, pout, rd>>

\* _read_until after the thread has ended: it raises what the thread
\* caught (lines 261-262) and returns the lines otherwise (line 264)
UntilRaises(rec) == rec.err

\* lines 146-149
VersionFrom(res, version) ==
    IF \E i \in 1..Len(res) : res[i] = "id name" THEN "Stockfish 16" ELSE version

\* the lines the thread collected end with the terminator
SawTerminator(rec) == \E i \in 1..Len(rec.res) : rec.res[i] = rec.term

S16_Until_Done ==
    /\ cpc \in {"start_read_uci", "start_read_ready"}
    /\ rd[crd].st = "ended"
    /\ rd' = [rd EXCEPT ![crd] = NoRd]
    /\ crd' = NoReader
    /\ IF UntilRaises(rd[crd])
       THEN /\ StartFails("reader_error")
            /\ s16_version' = s16_version
       ELSE IF cpc = "start_read_uci"
       THEN /\ s16_version' = VersionFrom(rd[crd].res, s16_version)
            /\ cpc' = "start_config"
            /\ ctmo' = 0
            /\ last' = NoEv
            /\ UNCHANGED <<cret, cfail>>
       ELSE /\ cpc' = "idle"
            /\ ctmo' = 0
            /\ last' = S16Ev("start", "ok",
                             IF SawTerminator(rd[crd]) THEN "handshake"
                             ELSE "output_ended", s16_process)
            /\ UNCHANGED <<s16_version, cret, cfail>>
    /\ UNCHANGED <<restv, poolside, cheld, s16_process, proc, pkind, pout>>

(* ---------------------------------------------------------------------- *)
(* Stockfish16Engine.get_classical_eval() (lines 184-221)                  *)
(* ---------------------------------------------------------------------- *)
S16_Eval ==
    /\ cpc = "idle"
    /\ FreeReaders # {}
    /\ \E fen_ok \in BOOLEAN :
        IF s16_process = NoProc
        THEN /\ last' = [S16Ev("get_classical_eval", "EngineError",
                               IF fen_ok THEN "not_started" ELSE "not_started_bad_fen",
                               NoProc) EXCEPT !.raised = TRUE]
             /\ cpc' = cpc
        ELSE IF ~fen_ok
        THEN /\ last' = [S16Ev("get_classical_eval", "InvalidFenError", "fen",
                               s16_process) EXCEPT !.raised = TRUE]
             /\ cpc' = cpc
        ELSE /\ last' = NoEv
             /\ cpc' = "eval_send"
    /\ cheld' = s16_process
    /\ UNCHANGED <<restv, poolside, s16_process, s16_version, proc, pkind, pout, cret,
                   cfail, ctmo, crd, rd>>

\* lines 210-216: the two commands, then _read_eval_output; what _send
\* raises on an exited process leaves the call as it is
S16_Eval_Send ==
    /\ cpc = "eval_send"
    /\ LET p == s16_process
       IN  IF SendRaises(p, proc) # "none"
           THEN /\ cpc' = "idle"
                /\ last' = [S16Ev("get_classical_eval", SendRaises(p, proc), "send", p)
                              EXCEPT !.raised = TRUE]
                /\ UNCHANGED <<proc, pout, ctmo, crd, rd>>
           ELSE /\ \E o \in SendOutcomes :
                    /\ proc' = ProcAfterSend(proc, p, pkind[p], "eval", o)
                    /\ pout' = PipeAfterSend(pout, p, pkind[p], "eval", o)
                /\ StartRead("eval", "Total", "eval_read")
    /\ UNCHANGED <<restv, poolside, cheld, s16_process, s16_version, pkind, cret, cfail>>

\* lines 307-319, once the join has returned
EvalOutcome(err, done, res) ==
    IF err THEN "AttributeError"
    ELSE IF ~done THEN "EngineError"
    ELSE IF res = <<>> THEN "EvalNotAvailableError"
    ELSE "ok"

HandleAfterReadDropped(process) == NoProc
\* _read_eval_output raises or returns and assigns nothing to _process
HandleAfterRead(process) == process

S16_Eval_Result ==
    /\ cpc = "eval_read"
    /\ rd[crd].st = "ended" \/ ctmo = 0
    /\ LET rec == rd[crd]
           out == EvalOutcome(rec.err, rec.done, rec.res)
       IN  last' = [S16Ev("get_classical_eval", out,
                          IF rec.st = "ended" THEN "thread_ended" ELSE "deadline",
                          s16_process)
                      EXCEPT !.raised = (out # "ok")]
    /\ rd' = IF rd[crd].st = "ended" THEN [rd EXCEPT ![crd] = NoRd] ELSE rd
    /\ crd' = NoReader
    /\ cpc' = "idle"
    /\ ctmo' = 0
    /\ s16_process' = HandleAfterRead(s16_process)
    /\ UNCHANGED <<restv, poolside, cheld, s16_version, proc, pkind, pout, cret, cfail>>

(* ---------------------------------------------------------------------- *)
(* StockfishEngine on its own: start(), stop() and the process dying       *)
(* ---------------------------------------------------------------------- *)
\* the version property of StockfishEngine: _version is assigned right
\* after the handle (lines 118-122) and cleared together with it (148-150)
uci_version_of(h, e) == IF h[e] = "none" THEN "not started" ELSE "Stockfish"

U_Start ==
    /\ S16Untouched
    /\ \E out \in StartOutcomes :
        /\ handle' = StartHandle(handle, Uci, out)
        /\ quits' = StartQuits(quits, handle, Uci, out)
        /\ last' = [Ev("uci", "start",
                       IF out = "ok" THEN "ok" ELSE "EngineStartupError", out, Uci)
                      EXCEPT !.raised = (out # "ok")]
    /\ UNCHANGED <<restv, s16v, size, poolv, nextId, ghostv, pc, locv, idx>>

U_Stop ==
    /\ S16Untouched
    /\ handle' = StopHandle(handle, Uci)
    /\ quits' = StopQuits(quits, handle, Uci)
    /\ last' = Ev("uci", "stop", "ok",
                  IF handle[Uci] = "none" THEN "noop" ELSE "stopped", Uci)
    /\ UNCHANGED <<restv, s16v, size, poolv, nextId, ghostv, pc, locv, idx>>

U_Exit ==
    /\ handle[Uci] = "alive"
    /\ handle' = [handle EXCEPT ![Uci] = "dead"]
    /\ last' = NoEv
    /\ UNCHANGED <<restv, s16v, size, poolv, quits, nextId, ghostv, pc, locv, idx>>

(* ---------------------------------------------------------------------- *)
(* StockfishEngine.evaluate (lines 164-238)                                *)
(* ---------------------------------------------------------------------- *)
EvaluateRaises(fen, m, out, via) ==
    /\ u_eval' = [NoEval EXCEPT !.fen = fen, !.multipv = m, !.out = out]
    /\ last' = [Ev("uci", "evaluate", out, via, Uci) EXCEPT !.raised = TRUE]

FenCheckedFirst(h, fen) ==
    IF fen = "malformed" THEN "InvalidFenError"
    ELSE IF h = "none" THEN "EngineError"
    ELSE "none"
\* lines 189-196: the handle is tested, then the position is parsed
EvaluateRejects(h, fen) ==
    IF h = "none" THEN "EngineError"
    ELSE IF fen = "malformed" THEN "InvalidFenError"
    ELSE "none"

\* lines 209-238 once analyse() has answered
EvaluateReturns(fen, m, infos) ==
    LET results == Results(infos, Turn(fen))
    IN  IF results = <<>>
        THEN /\ u_eval' = [NoEval EXCEPT !.fen = fen, !.multipv = m,
                                         !.passed = ClampMultipv(m),
                                         !.infos = infos, !.out = "EngineError"]
             /\ last' = [Ev("uci", "evaluate", "EngineError", "no_results", Uci)
                           EXCEPT !.raised = TRUE]
        ELSE /\ u_eval' = [fen |-> fen, multipv |-> m, passed |-> ClampMultipv(m),
                           infos |-> infos, out |-> "ok",
                           cp |-> results[1].cp, mate |-> results[1].mate,
                           best_line |-> results[1].best_line,
                           alternatives |-> Tail(results)]
             /\ last' = Ev("uci", "evaluate", "ok", "result", Uci)

\* evaluate(fen, multipv=m); n, s and miss shape the engine's answer
Evaluate(fen, m, n, s, miss) ==
    /\ S16Untouched
    /\ IF EvaluateRejects(handle[Uci], fen) # "none"
       THEN /\ EvaluateRaises(fen, m, EvaluateRejects(handle[Uci], fen), "rejected")
            /\ handle' = handle
       ELSE IF handle[Uci] = "dead"
       THEN \* analyse() raises EngineTerminatedError (lines 233-234)
            /\ EvaluateRaises(fen, m, "EngineError", "terminated")
            /\ handle' = handle
       ELSE \/ /\ EvaluateRaises(fen, m, "EngineError", "terminated")
               /\ handle' = [handle EXCEPT ![Uci] = "dead"]
            \/ \* lines 235-237
               /\ EvaluateRaises(fen, m, "EngineTimeoutError", "timeout")
               /\ handle' = handle
            \/ \* the engine answers with at most multipv infos
               /\ EvaluateReturns(fen, m, InfosFor(fen, Min(n, ClampMultipv(m)), s, miss))
               /\ handle' = handle
    /\ UNCHANGED <<s16v, size, poolv, quits, nextId, ghostv, pc, locv, idx, u_req, parsev,
                 mgrv, sv>>

\* evaluate called with multipv 1 on an engine that answers with one info
U_Evaluate ==
    \E fen \in FenKinds, miss \in {"none", "all"} :
        Evaluate(fen, 1, 1, [mate |-> FALSE, v |-> 35], miss)

\* evaluate called with the request the run was drawn for
U_EvaluateReq ==
    /\ u_req # NoReq
    /\ Evaluate(u_req.fen, u_req.multipv, u_req.n, u_req.s, u_req.miss)

(* ---------------------------------------------------------------------- *)
(* The wrappers on their own: next-state relation and specifications       *)
(* ---------------------------------------------------------------------- *)
CallerSteps ==
    \/ S16_Stop_Quit
    \/ S16_Stop_Waited
    \/ S16_Stop_Tick
    \/ S16_Stop_Kill
    \/ S16_Start_NotFound
    \/ S16_Start_Spawn
    \/ S16_Start_Uci
    \/ S16_Start_Config
    \/ S16_Join_Tick
    \/ S16_Until_Timeout
    \/ S16_Until_Done
    \/ S16_Eval_Send
    \/ S16_Eval_Result

ReaderSteps == \E r \in ReaderIds : Reader_Bind(r) \/ Reader_Line(r)

EngineNext ==
    \/ S16_Start
    \/ S16_Stop
    \/ S16_Eval
    \/ CallerSteps
    \/ ReaderSteps
    \/ Proc_Exit
    \/ U_Start
    \/ U_Stop
    \/ U_Exit
    \/ U_Evaluate

EngineInit == Init /\ size = 1

EngineSpec == EngineInit /\ [][EngineNext]_vars

\* StockfishEngine on its own, for one request drawn at the start
EvalInit ==
    /\ PoolInit
    /\ size = 1
    /\ S16Init
    /\ u_eval = NoEval
    /\ u_req \in Requests
    /\ pe_lines = <<>>
    /\ pe_result = NoParse
    /\ ManagerInit
    /\ sv = [w \in Workers |-> NoServe]

EvalNext == U_Start \/ U_Stop \/ U_Exit \/ U_EvaluateReq

EvalSpec == EvalInit /\ [][EvalNext]_vars

(* ---------------------------------------------------------------------- *)
(* parse_eval_output on its own, for an input drawn at the start           *)
(* ---------------------------------------------------------------------- *)
ParseEvalOutput ==
    /\ pe_result.out = "none"
    /\ pe_result' = parse_eval_output(pe_lines)
    /\ last' = [Ev("parser", "parse_eval_output", pe_result'.out, "none", NoEngine)
                  EXCEPT !.raised = pe_result'.out # "ok"]
    /\ UNCHANGED <<poolside, s16v, evalv, pe_lines, mgrv, sv>>

ParseInit ==
    /\ PoolInit
    /\ size = 1
    /\ S16Init
    /\ u_eval = NoEval
    /\ u_req = NoReq
    /\ pe_lines \in Inputs
    /\ pe_result = NoParse
    /\ ManagerInit
    /\ sv = [w \in Workers |-> NoServe]

ParseNext == ParseEvalOutput

ParseSpec == ParseInit /\ [][ParseNext]_vars

(* ---------------------------------------------------------------------- *)
(* Stockfish16Manager: actions                                             *)
(* ---------------------------------------------------------------------- *)
MOps == {"start", "shutdown", "get_classical_eval", "health_check", "is_started"}
Locked == MOps \ {"is_started"}

\* the positions of a call at which a method of the engine object is
\* under way
EnginePcs == {"engine_start", "restart_stop", "restart_start", "engine_eval",
              "engine_stop", "engine_health"}

NotManager == UNCHANGED <<poolside, s16v, evalv, parsev, sv>>

\* calls under way that may still construct an engine object
Creators ==
    {c \in MCallers : m_pc[c] # "idle" /\ m_op[c] \in {"start", "get_classical_eval"}}

\* a thread calls a method of the manager
M_Call(c, o) ==
    /\ m_pc[c] = "idle"
    /\ o \in {"start", "get_classical_eval"} =>
         Cardinality(Constructed(m_obj)) + Cardinality(Creators) < MaxObjects
    /\ m_op' = [m_op EXCEPT ![c] = o]
    /\ m_pc' = [m_pc EXCEPT ![c] = IF o = "is_started" THEN "check" ELSE "lock"]
    /\ m_trace' = [m_trace EXCEPT ![c] = [NoTrace EXCEPT !.c = c]]
    /\ m_ret' = NoTrace
    /\ last' = NoEv
    /\ UNCHANGED <<m_engine, m_shutdown, m_lock, m_obj, m_down>>
    /\ NotManager

\* with self._lock: whether a thread arriving at the lock may enter
AlwaysEnters(holder) == TRUE
CanEnter(holder) == holder = NoCaller

M_Acquire(c) ==
    /\ m_pc[c] = "lock"
    /\ CanEnter(m_lock)
    /\ m_lock' = c
    /\ m_pc' = [m_pc EXCEPT ![c] = "in"]
    /\ m_ret' = NoTrace
    /\ last' = NoEv
    /\ UNCHANGED <<m_engine, m_shutdown, m_op, m_obj, m_trace, m_down>>
    /\ NotManager

\* the call of c returns or raises; a call that holds the lock leaves the
\* with block
M_Return(c, out, via, raises, trace) ==
    /\ m_pc' = [m_pc EXCEPT ![c] = "idle"]
    /\ m_lock' = IF m_op[c] \in Locked THEN NoCaller ELSE m_lock
    /\ m_trace' = [m_trace EXCEPT ![c] = NoTrace]
    /\ m_ret' = trace
    /\ last' = [Ev(c, m_op[c], out, via, m_engine) EXCEPT !.raised = raises]
    /\ UNCHANGED m_op

M_Goto(c, pos, trace) ==
    /\ m_pc' = [m_pc EXCEPT ![c] = pos]
    /\ m_trace' = [m_trace EXCEPT ![c] = trace]
    /\ m_ret' = NoTrace
    /\ last' = NoEv
    /\ UNCHANGED <<m_lock, m_op>>

\* self._engine.<method>() with self._engine None
M_NoneHasNoMethod(c) ==
    /\ M_Return(c, "AttributeError", "none_engine", TRUE, m_trace[c])
    /\ UNCHANGED <<m_engine, m_shutdown, m_obj, m_down>>

\* start(), lines 68-76
StartSkipsCheck(e) == FALSE
AlreadyStarted(e) == e # NoObject

M_Start_In(c) ==
    /\ m_pc[c] = "in" /\ m_op[c] = "start"
    /\ IF AlreadyStarted(m_engine)
       THEN /\ M_Return(c, "ok", "already_started", FALSE, m_trace[c])
            /\ UNCHANGED <<m_engine, m_shutdown, m_obj, m_down>>
       ELSE IF m_shutdown
       THEN /\ M_Return(c, "EngineUnavailableError", "shutdown", TRUE, m_trace[c])
            /\ UNCHANGED <<m_engine, m_shutdown, m_obj, m_down>>
       ELSE /\ m_engine' = NewObject(m_obj)
            /\ m_obj' = Construct(m_obj, "start")
            /\ M_Goto(c, "engine_start",
                      [m_trace[c] EXCEPT !.made = Append(@, NewObject(m_obj))])
            /\ UNCHANGED <<m_shutdown, m_down>>
    /\ NotManager

\* start(), line 77: self._engine.start()
M_Start_Engine(c) ==
    /\ m_pc[c] = "engine_start" /\ m_op[c] = "start"
    /\ IF m_engine = NoObject THEN M_NoneHasNoMethod(c)
       ELSE \E o \in ObjStartOutcomes :
            LET t == [m_trace[c] EXCEPT !.started = Append(@, m_engine)] IN
            /\ m_obj' = obj_start(m_obj, m_engine, o)
            /\ IF o = "raise"
               THEN M_Return(c, "EngineStartupError", "engine", TRUE, t)
               ELSE M_Return(c, "ok", "started", FALSE, t)
            /\ UNCHANGED <<m_engine, m_shutdown, m_down>>
    /\ NotManager

\* shutdown(), lines 83-84
ShutdownStaysOpen(flag) == flag
ShutdownFlag(flag) == TRUE

M_Shutdown_In(c) ==
    /\ m_pc[c] = "in" /\ m_op[c] = "shutdown"
    /\ m_shutdown' = ShutdownFlag(m_shutdown)
    /\ IF m_engine # NoObject
       THEN /\ M_Goto(c, "engine_stop", m_trace[c])
            /\ UNCHANGED <<m_engine, m_obj, m_down>>
       ELSE /\ M_Return(c, "ok", "no_engine", FALSE, m_trace[c])
            /\ m_down' = TRUE
            /\ UNCHANGED <<m_engine, m_obj>>
    /\ NotManager

\* shutdown(), lines 86-87: self._engine.stop(); self._engine = None
M_Shutdown_Engine(c) ==
    /\ m_pc[c] = "engine_stop" /\ m_op[c] = "shutdown"
    /\ IF m_engine = NoObject
       THEN M_NoneHasNoMethod(c)
       ELSE /\ m_obj' = obj_stop(m_obj, m_engine)
            /\ m_engine' = NoObject
            /\ m_down' = TRUE
            /\ M_Return(c, "ok", "stopped", FALSE,
                        [m_trace[c] EXCEPT !.stops = Append(@, m_engine)])
            /\ UNCHANGED m_shutdown
    /\ NotManager

\* get_classical_eval(), lines 106-113
NeverRestarts(objs, e) == FALSE
DeadAtUse(objs, e) == ~obj_is_alive(objs, e)

M_Eval_In(c) ==
    /\ m_pc[c] = "in" /\ m_op[c] = "get_classical_eval"
    /\ IF m_shutdown
       THEN M_Return(c, "EngineUnavailableError", "shutdown", TRUE, m_trace[c])
       ELSE IF m_engine = NoObject
       THEN M_Return(c, "EngineUnavailableError", "not_started", TRUE, m_trace[c])
       ELSE M_Goto(c, IF DeadAtUse(m_obj, m_engine) THEN "restart_stop"
                      ELSE "engine_eval",
                   [m_trace[c] EXCEPT !.held = m_engine,
                                      !.found = m_obj[m_engine].state])
    /\ UNCHANGED <<m_engine, m_shutdown, m_obj, m_down>>
    /\ NotManager

\* lines 115-116: self._engine.stop(); self._engine = Stockfish16Engine(...)
M_Eval_Stop(c) ==
    /\ m_pc[c] = "restart_stop"
    /\ IF m_engine = NoObject
       THEN M_NoneHasNoMethod(c)
       ELSE /\ m_obj' = Construct(obj_stop(m_obj, m_engine), "restart")
            /\ m_engine' = NewObject(m_obj)
            /\ M_Goto(c, "restart_start",
                      [m_trace[c] EXCEPT !.stops = Append(@, m_engine),
                                         !.made = Append(@, NewObject(m_obj))])
            /\ UNCHANGED <<m_shutdown, m_down>>
    /\ NotManager

\* line 117: self._engine.start(); an exception leaves the call
M_Eval_Start(c) ==
    /\ m_pc[c] = "restart_start"
    /\ IF m_engine = NoObject THEN M_NoneHasNoMethod(c)
       ELSE \E o \in ObjStartOutcomes :
            LET t == [m_trace[c] EXCEPT !.started = Append(@, m_engine)] IN
            /\ m_obj' = obj_start(m_obj, m_engine, o)
            /\ IF o = "raise"
               THEN M_Return(c, "EngineStartupError", "respawn", TRUE, t)
               ELSE M_Goto(c, "engine_eval", t)
            /\ UNCHANGED <<m_engine, m_shutdown, m_down>>
    /\ NotManager

\* line 119: return self._engine.get_classical_eval(fen)
M_Eval_Engine(c) ==
    /\ m_pc[c] = "engine_eval"
    /\ IF m_engine = NoObject THEN M_NoneHasNoMethod(c)
       ELSE \E o \in ObjEvalOutcomes(m_obj, m_engine) :
            LET t == [m_trace[c] EXCEPT !.asked = m_engine] IN
            /\ m_obj' = obj_eval(m_obj, m_engine, o)
            /\ IF o = "ok"
               THEN M_Return(c, "ok", "engine", FALSE, t)
               ELSE M_Return(c, "EngineError", "engine", TRUE, t)
            /\ UNCHANGED <<m_engine, m_shutdown, m_down>>
    /\ NotManager

\* health_check(), lines 124-125
M_Health_In(c) ==
    /\ m_pc[c] = "in" /\ m_op[c] = "health_check"
    /\ IF m_engine = NoObject
       THEN M_Return(c, "not started", "not_started", FALSE, m_trace[c])
       ELSE M_Goto(c, "engine_health", m_trace[c])
    /\ UNCHANGED <<m_engine, m_shutdown, m_obj, m_down>>
    /\ NotManager

\* health_check(), lines 127-130: is_alive() and version of the engine
M_Health_Engine(c) ==
    /\ m_pc[c] = "engine_health"
    /\ IF m_engine = NoObject THEN M_NoneHasNoMethod(c)
       ELSE /\ M_Return(c, IF obj_is_alive(m_obj, m_engine) THEN "healthy"
                           ELSE "unhealthy", "engine", FALSE, m_trace[c])
            /\ UNCHANGED <<m_engine, m_shutdown, m_obj, m_down>>
    /\ NotManager

\* is_started, line 63, left operand: self._engine is not None (no lock)
M_IsStarted_Check(c) ==
    /\ m_pc[c] = "check" /\ m_op[c] = "is_started"
    /\ IF m_engine = NoObject
       THEN M_Return(c, "false", "no_engine", FALSE, m_trace[c])
       ELSE M_Goto(c, "is_alive", m_trace[c])
    /\ UNCHANGED <<m_engine, m_shutdown, m_obj, m_down>>
    /\ NotManager

\* is_started, line 63, right operand: self._engine.is_alive()
M_IsStarted_Alive(c) ==
    /\ m_pc[c] = "is_alive"
    /\ IF m_engine = NoObject THEN M_NoneHasNoMethod(c)
       ELSE /\ M_Return(c, IF obj_is_alive(m_obj, m_engine) THEN "true"
                           ELSE "false", "engine", FALSE, m_trace[c])
            /\ UNCHANGED <<m_engine, m_shutdown, m_obj, m_down>>
    /\ NotManager

\* the process of an engine exits on its own
M_Die ==
    /\ \E e \in Objects :
        /\ m_obj[e].state = "alive"
        /\ m_obj' = [m_obj EXCEPT ![e].state = "dead"]
    /\ m_ret' = NoTrace
    /\ last' = NoEv
    /\ UNCHANGED <<m_engine, m_shutdown, m_lock, m_pc, m_op, m_trace, m_down>>
    /\ NotManager

ManagerNext ==
    \/ \E c \in MCallers, o \in MOps : M_Call(c, o)
    \/ \E c \in MCallers : M_Acquire(c)
    \/ \E c \in MCallers : M_Start_In(c)
    \/ \E c \in MCallers : M_Start_Engine(c)
    \/ \E c \in MCallers : M_Shutdown_In(c)
    \/ \E c \in MCallers : M_Shutdown_Engine(c)
    \/ \E c \in MCallers : M_Eval_In(c)
    \/ \E c \in MCallers : M_Eval_Stop(c)
    \/ \E c \in MCallers : M_Eval_Start(c)
    \/ \E c \in MCallers : M_Eval_Engine(c)
    \/ \E c \in MCallers : M_Health_In(c)
    \/ \E c \in MCallers : M_Health_Engine(c)
    \/ \E c \in MCallers : M_IsStarted_Check(c)
    \/ \E c \in MCallers : M_IsStarted_Alive(c)
    \/ M_Die

ManagerSpec == EngineInit /\ [][ManagerNext]_vars

(* ---------------------------------------------------------------------- *)
(* StockfishServiceImpl.Evaluate: a request served through the pool        *)
(* ---------------------------------------------------------------------- *)
\* how evaluate() ends on the engine a handler holds (engine.py:189-238):
\* no handle, a process that has exited, or a live process that answers,
\* runs out of time or exits over the request
ServeOutcomes(h) ==
    CASE h = "none" -> {[out |-> "EngineError", via |-> "not_started", h |-> h]}
      [] h = "dead" -> {[out |-> "EngineError", via |-> "terminated", h |-> h]}
      [] OTHER -> {[out |-> "ok", via |-> "result", h |-> h],
                   [out |-> "EngineTimeoutError", via |-> "timeout", h |-> h],
                   [out |-> "EngineError", via |-> "terminated", h |-> "dead"]}

\* server.py:64: the handler enters the pool's engine() block
Serve_Acquire(c) ==
    /\ sv[c].out = "none"
    /\ Acquire_Check(c, None)

\* server.py:65-74: the one evaluate() call of the body
Serve_Evaluate(c) ==
    /\ pc[c] = "holding"
    /\ sv[c].out = "none"
    /\ \E o \in ServeOutcomes(handle[eng[c]]) :
        /\ sv' = [sv EXCEPT ![c] = [out |-> o.out, via |-> o.via, calls |-> @.calls + 1]]
        /\ handle' = [handle EXCEPT ![eng[c]] = o.h]
        /\ last' = [Ev(c, "evaluate", o.out, o.via, eng[c]) EXCEPT !.raised = o.out # "ok"]
    /\ UNCHANGED <<s16v, size, poolv, quits, nextId, ghostv, pc, locv, idx, evalv, parsev,
                   mgrv>>

\* pool.py:251-254: the body has returned or raised, release() runs
Serve_Exit(c) ==
    /\ sv[c].out # "none"
    /\ Release_Check(c, sv[c].out # "ok")

\* server.py:95-114: the block is left; the response is returned, or the
\* exception of the body aborts the call with its status
Serve_Respond(c) ==
    /\ pc[c] = "idle"
    /\ sv[c].out # "none"
    /\ sv' = [sv EXCEPT ![c] = NoServe]
    /\ last' = [Ev(c, "Evaluate", sv[c].out, sv[c].via, NoEngine)
                  EXCEPT !.raised = sv[c].out # "ok", !.hc = <<sv[c].calls, 0, 0>>]
    /\ UNCHANGED <<poolside, s16v, evalv, parsev, mgrv>>

ServeNext ==
    \/ Start_Check
    \/ Start_Create
    \/ Start_Fail
    \/ Start_Done
    \/ \E c \in Workers : Serve_Acquire(c)
    \/ \E c \in Workers : Acquire_Get(c)
    \/ \E c \in Workers : Acquire_Wait(c)
    \/ \E c \in Workers : Acquire_Timeout(c)
    \/ \E c \in Workers : Acquire_Alive(c)
    \/ \E c \in Workers : Restart_Stop(c)
    \/ \E c \in Workers : Restart_Try(c)
    \/ \E c \in Workers : Restart_Replace(c)
    \/ \E c \in Workers : Restart_ReplaceFail(c)
    \/ \E c \in Workers : Serve_Evaluate(c)
    \/ \E c \in Workers : Serve_Exit(c)
    \/ \E c \in Workers : Release_NewGame(c)
    \/ \E c \in Workers : Release_Put(c)
    \/ \E c \in Workers : Serve_Respond(c)
    \/ \E e \in EngineIds : Crash(e)

ServeSpec == Init /\ [][ServeNext]_vars

\* the caller's thread and the reader threads are scheduled
FairEngineSpec ==
    /\ EngineInit
    /\ [][EngineNext]_vars
    /\ WF_vars(CallerSteps)
    /\ WF_vars(ReaderSteps)


(* ====================================================================== *)
(* Properties                                                              *)
(* ====================================================================== *)
\* the pool is Started: start() returned and shutdown() has not been called
Started == p_started /\ ~p_shutdown

Tracked == Range(p_engines)
IsAvailable(e) == e \in Range(p_available)
IsCheckedOut(e) ==
    \E c \in Workers :
        eng[c] = e /\ pc[c] \in {"acq_alive", "holding", "rel_newgame", "rel_put"}
IsBeingReplaced(e) ==
    \E c \in Workers : eng[c] = e /\ pc[c] \in {"rs_stop", "rs_try"}
StatusCount(e) ==
    (IF IsAvailable(e) THEN 1 ELSE 0) + (IF IsCheckedOut(e) THEN 1 ELSE 0)
        + (IF IsBeingReplaced(e) THEN 1 ELSE 0)
NoDuplicates(s) == \A i, j \in 1..Len(s) : s[i] = s[j] => i = j
Health == HealthStatus(p_engines, p_available, handle)

(* ---------------------------------------------------------------------- *)
\* C1: no engine is held by two callers at once: from the moment acquire
\* has taken an engine off the queue for a caller until that caller's
\* release has requeued, stopped or dropped it, no other caller has the
\* same engine, and the engine is not in the availability queue.
C1_ExclusiveCheckout ==
    /\ \A c1, c2 \in Workers :
        (c1 # c2 /\ eng[c1] # NoEngine /\ eng[c2] # NoEngine) => eng[c1] # eng[c2]
    /\ \A c \in Workers :
        (pc[c] = "holding" /\ Started) => ~IsAvailable(eng[c])

\* two callers hold engines at the same time
C1_Witness ==
    /\ Started
    /\ \A c \in Workers : pc[c] = "holding" /\ eng[c] # NoEngine

C3_StartReports ==
    (last.op = "start" /\ last.out = "ok") =>
        /\ p_started
        /\ Health.total = size
        /\ Health.available = size
        /\ (\A e \in Tracked : is_alive(handle, e)) => Health.healthy = size
        /\ Range(p_available) = Tracked

\* start() has just returned on a pool of more than one engine, all alive
C3_Witness ==
    /\ last.op = "start" /\ last.out = "ok"
    /\ size >= 2
    /\ Health.healthy = size

(* ---------------------------------------------------------------------- *)
\* C4 as stated: an acquire that dequeued an instance whose process had
\* exited returns a live instance without an exception, and the tracked
\* total is then N.
C4_Original ==
    (last.op = "acquire" /\ last.via \in {"restarted", "replaced", "failed"}) =>
        /\ last.out = "ok"
        /\ is_alive(handle, last.e)
        /\ Started => Len(p_engines) = size

\* C4 as amended: when acquire dequeues an instance that is not alive and
\* one of the max_retries in-place restarts or the spawn of a fresh
\* instance succeeds, the caller receives, without an exception, an
\* instance that is alive and (on a started pool) tracked, and the tracked
\* total is what it was (N less the instances release has dropped); when
\* the restarts and the spawn all fail, acquire raises EngineStartupError
\* and returns no instance.
C4_DeadInstanceRecovery ==
    /\ (last.op = "acquire" /\ last.via \in {"restarted", "replaced"}) =>
        /\ last.out = "ok"
        /\ is_alive(handle, last.e)
        /\ pc[last.t] = "holding" /\ eng[last.t] = last.e
        /\ Started => (last.e \in Tracked /\ Len(p_engines) = size - dropped)
    /\ (last.op = "acquire" /\ last.via = "failed") =>
        /\ last.out = "EngineStartupError"
        /\ pc[last.t] = "idle" /\ eng[last.t] = NoEngine
        /\ ~IsAvailable(last.e)

\* acquire has just returned a freshly spawned instance in place of a dead
\* one, on a started pool
C4_Witness ==
    /\ last.op = "acquire" /\ last.via = "replaced"
    /\ Started
    /\ last.e \in Tracked

(* ---------------------------------------------------------------------- *)
\* one step of caller c inside an acquire that has not dequeued anything
AcquireWaitStep(c) ==
    \/ pc[c] = "idle" /\ pc'[c] = "acq_get"
    \/ pc[c] = "acq_get" /\ pc'[c] = "acq_get" /\ tmo'[c] # tmo[c]
    \/ pc[c] = "acq_get" /\ pc'[c] = "idle"

\* C5: acquire waits with a finite deadline -- the timeout given, or the
\* pool default when it is None -- so that with the queue empty either time
\* passes or PoolExhaustedError is raised; it is raised only with the queue
\* empty and the deadline elapsed, the caller then holds nothing, and no
\* step of the waiting acquire changes the tracked set, the queue or any
\* engine.
C5_ExhaustedAfterTimeout ==
    /\ [](\A c \in Workers : pc[c] = "acq_get" => tmo[c] \in 0..acquire_timeout)
    /\ [](last.out = "PoolExhaustedError" =>
            /\ last.op = "acquire"
            /\ pc[last.t] = "idle" /\ eng[last.t] = NoEngine)
    /\ [][\A c \in Workers :
            /\ AcquireWaitStep(c) =>
                    UNCHANGED <<p_engines, p_available, handle, quits>>
            /\ last'.out = "PoolExhaustedError" /\ last'.t = c =>
                    p_available = <<>> /\ tmo[c] = 0 /\ pc[c] = "acq_get"]_vars

\* acquire has just raised PoolExhaustedError on a started pool all of
\* whose engines are checked out
C5_Witness ==
    /\ last.op = "acquire" /\ last.out = "PoolExhaustedError"
    /\ Started
    /\ p_engines # <<>>
    /\ \A e \in Tracked : \E c \in Workers : pc[c] = "holding" /\ eng[c] = e

(* ---------------------------------------------------------------------- *)
\* C6: a pool that was never started, or on which shutdown has been called,
\* rejects use: an acquire on it raises PoolShutdownError without dequeuing
\* or spawning anything, a start() after shutdown raises PoolShutdownError
\* without spawning anything, and shutdown is terminal -- once _shutdown is
\* set it stays set, and once the pool is shut down it is never started
\* again.
C6_RejectsOutsideLifecycle ==
    [][/\ \A c \in Workers :
            (pc[c] = "idle" /\ (p_shutdown \/ ~p_started)) =>
                /\ pc'[c] = "idle"
                /\ last'.t = c =>
                    /\ last'.op = "acquire"
                    /\ last'.out = "PoolShutdownError"
                    /\ UNCHANGED <<poolv, engv, eng>>
       /\ (pc[Main] = "idle" /\ p_shutdown /\ last'.op = "start") =>
                /\ last'.out = "PoolShutdownError"
                /\ pc'[Main] = "idle"
                /\ UNCHANGED <<poolv, engv>>
       /\ (pc[Main] = "idle" /\ p_shutdown) => pc'[Main] # "start_loop"
       /\ p_shutdown => p_shutdown'
       /\ (p_shutdown /\ ~p_started) => ~p_started']_vars

\* an acquire has just been rejected on a pool that had been started and
\* was then shut down
C6_Witness ==
    /\ last.op = "acquire" /\ last.out = "PoolShutdownError"
    /\ p_shutdown
    /\ nextId > 1

(* ---------------------------------------------------------------------- *)
\* C7 as stated: engine() releases the engine on every exit of its body,
\* and after the block, on a started pool, the engine is available again.
C7_Original ==
    (last.op = "release" /\ Started) =>
        /\ last.via = "requeued"
        /\ IsAvailable(last.e)

\* C7 as amended: engine() calls release on the acquired engine on every
\* exit of its body, whether the body returned or raised; after the block,
\* on a started pool, the engine (or the instance that replaced it) is in
\* the availability queue, except when its reset raised and the restart
\* and the replacement both failed: then release has dropped it from the
\* tracked set and it is not available.
C7_ReleaseOnEveryExit ==
    last.op = "release" =>
        /\ last.via # "unreleased"
        /\ last.out = ReleaseOut(last.raised)
        /\ pc[last.t] = "idle" /\ eng[last.t] = NoEngine
        /\ Started =>
            /\ last.via \in {"requeued", "dropped"}
            /\ last.via = "requeued" => IsAvailable(last.e) /\ last.e \in Tracked
            /\ last.via = "dropped" =>
                /\ last.reset = "raised"
                /\ ~IsAvailable(last.e)

\* the body of engine() raised and the engine is back in the queue of a
\* started pool
C7_Witness ==
    /\ last.op = "release" /\ last.raised
    /\ Started
    /\ last.via = "requeued"
    /\ IsAvailable(last.e)

C9_ShutdownIdempotent ==
    /\ [](\A e \in EngineIds : quits[e] <= 1)
    /\ [][/\ (pc[Main] = "idle" /\ p_shutdown /\ pc'[Main] # "idle") => FALSE
          /\ (pc[Main] = "idle" /\ p_shutdown /\ last'.op = "shutdown") =>
                /\ last'.out = "noop"
                /\ UNCHANGED <<restv, s16v, size, poolv, engv, ghostv, pc, locv, idx>>]_vars

\* a second shutdown() has just returned on a pool whose engines the first
\* one had stopped
C9_Witness ==
    /\ last.op = "shutdown" /\ last.out = "noop"
    /\ \E e \in EngineIds : quits[e] = 1 /\ handle[e] = "none"

(* ---------------------------------------------------------------------- *)
\* C10 as stated: when release(e) is called on a pool that is not shutting
\* down and the reset of e (new_game) raises, e is removed from the tracked
\* set and not requeued.
C10_Original ==
    (last.op = "release" /\ last.reset = "raised" /\ last.via # "stopped") =>
        /\ last.via = "dropped"
        /\ last.e \notin Tracked
        /\ ~IsAvailable(last.e)

\* C10 as amended: when release(e) is called on a pool that is not shutting
\* down and new_game raises EngineError, release first restarts e; if an
\* in-place restart or the spawn of a replacement succeeds, that instance
\* is put back in the availability queue and the tracked total is
\* unchanged; only when they all fail is e removed from the tracked set and
\* not requeued, and the tracked total is then below N.  A failure of the
\* reset exchange with a process that has exited is swallowed by new_game,
\* and e is requeued.
C10_ResetFailure ==
    last.op = "release" =>
        /\ last.via = "dropped" =>
            /\ last.reset = "raised"
            /\ last.e \notin Tracked
            /\ ~IsAvailable(last.e)
            /\ Started => (dropped >= 1 /\ Len(p_engines) < size)
        /\ (last.reset = "raised" /\ last.via = "requeued" /\ Started) =>
            /\ IsAvailable(last.e)
            /\ last.e \in Tracked
            /\ is_alive(handle, last.e) \/ handle[last.e] = "dead"
            /\ Len(p_engines) = size - dropped
        /\ last.reset = "logged" => last.via = "requeued"
        /\ last.reset = "ok" => last.via = "requeued"

\* release has just dropped an engine from a started pool
C10_Witness ==
    /\ last.op = "release" /\ last.via = "dropped"
    /\ Started
    /\ Len(p_engines) = size - 1

(* ---------------------------------------------------------------------- *)
\* C11: after release has dropped an instance from a started pool (tracked
\* total below N), the tracked total eventually returns to N as the pool
\* keeps being used (or the pool is shut down).
C11_Original ==
    (Started /\ dropped > 0) ~> (~Started \/ Len(p_engines) = size)

(* ---------------------------------------------------------------------- *)
\* C12: a release that finds the pool shutting down stops the engine and
\* discards it: the call returns with the wrapper holding no process, the
\* availability queue untouched and the engine not in it, and new_game is
\* not called.
C12_ReleaseOnShutdown ==
    [][\A c \in Workers :
        (pc[c] = "holding" /\ p_shutdown /\ pc'[c] # "holding") =>
            /\ pc'[c] = "idle"
            /\ last'.t = c /\ last'.op = "release"
            /\ last'.via = "stopped" /\ last'.reset = "none"
            /\ handle'[eng[c]] = "none"
            /\ quits'[eng[c]] <= 1
            /\ p_available' = p_available
            /\ ~(eng[c] \in Range(p_available'))
            /\ eng'[c] = NoEngine]_vars

\* a release has just stopped and discarded an engine whose process was
\* running, while shutdown() was waiting
C12_Witness ==
    /\ last.op = "release" /\ last.via = "stopped"
    /\ p_shutdown
    /\ pc[Main] = "shutdown_wait"
    /\ quits[last.e] = 1

(* ---------------------------------------------------------------------- *)
\* C13: start() on a pool that is already started returns without raising,
\* spawns nothing and leaves the tracked list, the queue, the lifecycle
\* flags and every engine as they were.
C13_StartAlreadyStarted ==
    [][/\ (pc[Main] = "idle" /\ p_started /\ last'.op = "start") =>
            /\ last'.out = "noop"
            /\ UNCHANGED <<restv, s16v, size, poolv, engv, ghostv, pc, locv>>
       /\ (pc[Main] = "idle" /\ p_started) => pc'[Main] # "start_loop"]_vars

\* start() has just returned as a no-op on a started pool with an engine
\* checked out
C13_Witness ==
    /\ last.op = "start" /\ last.out = "noop"
    /\ Started
    /\ \E c \in Workers : pc[c] = "holding"

(* ---------------------------------------------------------------------- *)
\* C14: health_check changes nothing -- the tracked list, the queue and its
\* order, the lifecycle flags, every engine's process state (it restarts
\* nothing) -- and it reports total = size of the tracked list, available =
\* size of the queue, healthy = number of tracked engines that are alive.
C14_HealthCheckReadOnly ==
    /\ [](last.op = "health_check" =>
            /\ last.hc[1] = Len(p_engines)
            /\ last.hc[2] = Len(p_available)
            /\ last.hc[3] = Cardinality({i \in 1..Len(p_engines) :
                                            handle[p_engines[i]] = "alive"}))
    /\ [][last'.op = "health_check" =>
            UNCHANGED <<restv, s16v, size, poolv, engv, ghostv, pc, locv, idx>>]_vars

\* health_check has just reported a started pool with a dead tracked
\* engine and an engine checked out
C14_Witness ==
    /\ last.op = "health_check"
    /\ Started
    /\ last.hc[3] < last.hc[1]
    /\ last.hc[2] < last.hc[1]
    /\ \E e \in Tracked : handle[e] = "dead"

(* ---------------------------------------------------------------------- *)
(* C15                                                                     *)
(* ---------------------------------------------------------------------- *)
\* the caller is inside start(), stop() or get_classical_eval()
InCall == cpc # "idle"

EvalDeadlineExpired(ev) ==
    ev.op = "get_classical_eval" /\ ev.via = "deadline" /\ ev.raised

EvalOnNoTable(ev) ==
    /\ ev.op = "get_classical_eval"
    /\ ev.via \in {"deadline", "thread_ended"}
    /\ ev.e # NoProc
    /\ pkind[ev.e] = "nnue"

\* C17: get_classical_eval on a started engine whose output never shows
\* the header of the table fails with EvalNotAvailableError
C17_Original == EvalOnNoTable(last) => last.out = "EvalNotAvailableError"

\* what the code does: no call ever ends with EvalNotAvailableError
UnsupportedNeverRaised == last.out # "EvalNotAvailableError"


(* ---------------------------------------------------------------------- *)
(* C18                                                                     *)
(* ---------------------------------------------------------------------- *)
\* C18: start() returns only after the handshake: when it returns, the
\* read that followed isready has seen readyok; a process whose output
\* ends before the terminator makes start() raise EngineStartupError
C18_Original ==
    last.op = "start" /\ last.t = Caller /\ ~last.raised => last.via = "handshake"


(* ---------------------------------------------------------------------- *)
(* C19                                                                     *)
(* ---------------------------------------------------------------------- *)
\* C19: when stop() has returned, on either wrapper and however the quit
\* went, the wrapper holds no process and no version: is_alive() is false
\* and version reads "not started"; stop() never raises, and on a wrapper
\* that holds no process it changes nothing
C19_StopClears ==
    /\ [](last.op = "stop" /\ last.t = Caller
            => /\ ~last.raised
               /\ s16_process = NoProc
               /\ ~s16_is_alive(s16_process, proc)
               /\ s16_version_of(s16_version) = "not started")
    /\ [](last.op = "stop" /\ last.t = "uci"
            => /\ ~last.raised
               /\ handle[Uci] = "none"
               /\ ~is_alive(handle, Uci)
               /\ uci_version_of(handle, Uci) = "not started")
    /\ [][last'.op = "stop" /\ last'.t = Caller /\ s16_process = NoProc
            => UNCHANGED <<s16_process, s16_version, proc, pkind, pout, rd,
                           cpc, poolside>>]_vars
    /\ [][last'.op = "stop" /\ last'.t = "uci" /\ handle[Uci] = "none"
            => UNCHANGED <<s16v, poolside>>]_vars

\* stop() has returned after the wait for the process to exit ran out and
\* the process was killed
C19_Witness ==
    /\ last.op = "stop"
    /\ last.t = Caller
    /\ last.via = "killed"
    /\ last.e # NoProc
    /\ proc[last.e] = "exited"


(* ---------------------------------------------------------------------- *)
(* C20                                                                     *)
(* ---------------------------------------------------------------------- *)
\* start() has returned on a wrapper that held a process when it was called
RestartReturned(ev) ==
    ev.op = "start" /\ ev.t = Caller /\ ~ev.raised /\ cheld # NoProc

\* C20: start() on a wrapper that holds a process stops it first and only
\* then spawns: the only process running is the one the wrapper holds, a
\* process is spawned only while none is held and none runs, and when the
\* call has returned the wrapper holds a new process that is alive (or was
\* when it completed the handshake)
C20_Original ==
    /\ [](\A p \in ProcIds : proc[p] = "running" => p = s16_process)
    /\ [][s16_process' \notin {s16_process, NoProc}
            => s16_process = NoProc /\ \A p \in ProcIds : proc[p] # "running"]_vars
    /\ [](RestartReturned(last)
            => /\ s16_process \notin {NoProc, cheld}
               /\ (s16_is_alive(s16_process, proc) \/ last.via = "handshake"))


(* ---------------------------------------------------------------------- *)
(* C21                                                                     *)
(* ---------------------------------------------------------------------- *)
\* a call with a malformed position has just ended: get_classical_eval of
\* Stockfish16Engine, evaluate of StockfishEngine
MalformedS16(ev) ==
    ev.op = "get_classical_eval" /\ ev.via \in {"fen", "not_started_bad_fen"}
MalformedUci(ev, call) == ev.op = "evaluate" /\ call.fen = "malformed"

\* a call with a malformed position sends nothing and changes nothing
MalformedChangesNothing ==
    [][MalformedS16(last') \/ MalformedUci(last', u_eval')
        => UNCHANGED <<s16_process, s16_version, proc, pkind, pout, rd, cpc,
                       handle, quits>>]_vars

\* C21 as stated: a malformed position raises InvalidFenError whatever the
\* engine's state, sends no command and changes nothing
C21_Original ==
    /\ [](MalformedS16(last) => last.out = "InvalidFenError")
    /\ [](MalformedUci(last, u_eval) => last.out = "InvalidFenError")
    /\ MalformedChangesNothing

\* C21: on a wrapper that holds a process handle, whether the process runs
\* or has exited, a malformed position raises InvalidFenError; on a
\* wrapper that holds none it raises EngineError; either way no command is
\* sent and nothing changes
C21_MalformedRejected ==
    /\ [](MalformedS16(last)
            => last.out = IF s16_process = NoProc THEN "EngineError"
                          ELSE "InvalidFenError")
    /\ [](MalformedUci(last, u_eval)
            => last.out = IF handle[Uci] = "none" THEN "EngineError"
                          ELSE "InvalidFenError")
    /\ MalformedChangesNothing

\* a malformed position was rejected by a wrapper whose process has exited
C21_Witness ==
    /\ MalformedS16(last)
    /\ last.out = "InvalidFenError"
    /\ s16_process # NoProc
    /\ proc[s16_process] = "exited"


(* ---------------------------------------------------------------------- *)
(* C22                                                                     *)
(* ---------------------------------------------------------------------- *)
\* evaluate has queried the engine for the request of the run
Queried == last.op = "evaluate" /\ last.via \in {"result", "no_results"}

\* C22: the multipv passed to the engine is the requested one clamped into
\* 1..10: the request itself when it lies in 1..10, 1 when it is below
\* and 10 when it is above; a result has at most that many variations, so
\* exactly one for a request of 0 or -1 and at most 10 for a request
\* beyond 10
C22_MultipvClamped ==
    Queried =>
        /\ u_eval.passed \in 1..10
        /\ u_eval.multipv \in 1..10 => u_eval.passed = u_eval.multipv
        /\ u_eval.multipv < 1 => u_eval.passed = 1
        /\ u_eval.multipv > 10 => u_eval.passed = 10
        /\ Len(u_eval.infos) <= u_eval.passed
        /\ u_eval.out = "ok" => 1 + Len(u_eval.alternatives) <= u_eval.passed

\* a request for more than 10 variations came back with 10
C22_Witness ==
    /\ Queried
    /\ u_eval.out = "ok"
    /\ u_eval.multipv > 10
    /\ 1 + Len(u_eval.alternatives) = 10


(* ---------------------------------------------------------------------- *)
(* C23                                                                     *)
(* ---------------------------------------------------------------------- *)
\* the infos of the engine's answer that carry a score
Scored(call) == SelectSeq(call.infos, LAMBDA i : i.has)

\* the engine's score of an info as white sees it, and as the side to
\* move of the position is to see it
WhiteRelative(info) == PovWhite(info.score)
ForMover(info, fen) ==
    IF Turn(fen) = "white" THEN WhiteRelative(info) ELSE Neg(WhiteRelative(info))

CpOf(sc) == IF sc.mate THEN 0 ELSE sc.v
MateOf(sc) == IF sc.mate THEN sc.v ELSE 0

\* C23: the cp / mate value evaluate returns is the engine's white-relative
\* value with white to move and its negation with black to move, for the
\* primary result and for every alternative
C23_ScorePerspective ==
    u_eval.out = "ok" =>
        /\ u_eval.cp = CpOf(ForMover(Scored(u_eval)[1], u_eval.fen))
        /\ u_eval.mate = MateOf(ForMover(Scored(u_eval)[1], u_eval.fen))
        /\ \A k \in 1..Len(u_eval.alternatives) :
            /\ u_eval.alternatives[k].cp =
                 CpOf(ForMover(Scored(u_eval)[k + 1], u_eval.fen))
            /\ u_eval.alternatives[k].mate =
                 MateOf(ForMover(Scored(u_eval)[k + 1], u_eval.fen))

\* black to move, a centipawn score and at least one alternative
C23_Witness ==
    /\ u_eval.out = "ok"
    /\ u_eval.fen = "black"
    /\ u_eval.cp # 0
    /\ Len(u_eval.alternatives) >= 1
    /\ u_eval.alternatives[1].cp # 0


(* ---------------------------------------------------------------------- *)
(* C24                                                                     *)
(* ---------------------------------------------------------------------- *)
\* C24: evaluate on a position with no legal move, once the engine has
\* answered, returns an empty result - no score, no best line, no
\* alternatives - and raises nothing
C24_Original ==
    Queried /\ u_eval.fen \in Terminal =>
        /\ ~last.raised
        /\ u_eval.out = "ok"
        /\ u_eval.cp = 0
        /\ u_eval.mate = 0
        /\ u_eval.best_line = 0
        /\ u_eval.alternatives = <<>>



(* ---------------------------------------------------------------------- *)
(* C25                                                                     *)
(* ---------------------------------------------------------------------- *)
\* C25: the final_eval_cp of a returned breakdown is
\* round(((total.mg + total.eg) / 2) * 100) of the total row it holds -
\* negative sums and sums on a half centipawn included - and 0 when no
\* total row was read
C25_Original ==
    pe_result.out = "ok" =>
        pe_result.final_eval_cp =
            RoundOfHalf(pe_result.terms["total"].total.mg.v
                        + pe_result.terms["total"].total.eg.v)



(* ---------------------------------------------------------------------- *)
(* C26                                                                     *)
(* ---------------------------------------------------------------------- *)
\* the rows of the input that set a field, and the last of them (0: none)
Supplying(f) ==
    {k \in 1..Len(pe_lines) :
        Applies(pe_lines[k]) /\ TERM_FIELD_MAP(Lower(pe_lines[k].term)) = f}
LastSupplying(f) ==
    IF Supplying(f) = {} THEN 0
    ELSE CHOOSE k \in Supplying(f) : \A j \in Supplying(f) : j <= k

Recognized(line) ==
    line.kind = "row" => TERM_FIELD_MAP(Lower(line.term)) # "none"

\* a cell written blank or unparseable came out as 0.0
CellDefaults(cell, value) == cell.k \in {"blank", "bad"} => value = Zero
ColumnDefaults(col, score) ==
    /\ CellDefaults(col[1], score.mg)
    /\ CellDefaults(col[2], score.eg)

\* C26: parse_eval_output never raises; rows with an unrecognized term
\* change nothing; every blank or unparseable cell of a row that was read
\* is 0.0 in the breakdown; every term no row supplied is all zeros
C26_Original ==
    pe_result.out # "none" =>
        /\ pe_result.out = "ok"
        /\ pe_result = parse_eval_output(SelectSeq(pe_lines, Recognized))
        /\ \A f \in Fields :
            IF LastSupplying(f) = 0
            THEN pe_result.terms[f] = ZeroBreakdown
            ELSE LET line == pe_lines[LastSupplying(f)] IN
                 /\ ColumnDefaults(line.white, pe_result.terms[f].white)
                 /\ ColumnDefaults(line.black, pe_result.terms[f].black)
                 /\ ColumnDefaults(line.total, pe_result.terms[f].total)



(* ---------------------------------------------------------------------- *)
(* C27                                                                     *)
(* ---------------------------------------------------------------------- *)
\* a call of start, shutdown, get_classical_eval or health_check that has
\* a method of the engine under way
InEngine(c) == m_op[c] \in Locked /\ m_pc[c] \in EnginePcs

\* a call of the manager returned or raised in the step to this state
MReturned(o) == last.t \in MCallers /\ last.op = o

\* C27: of the calls of start, shutdown, get_classical_eval and
\* health_check at most one has an engine method under way at any time,
\* and it is the one inside the lock; such a call never finds the engine
\* taken from under it, and a get_classical_eval raises only because the
\* manager is shut down or not started or because the engine itself
\* failed to start or to answer
C27_Serialized ==
    /\ Cardinality({c \in MCallers : InEngine(c)}) <= 1
    /\ \A c \in MCallers : InEngine(c) => m_lock = c
    /\ last.t \in MCallers /\ last.op \in Locked => last.out # "AttributeError"
    /\ MReturned("get_classical_eval") /\ last.raised =>
        \/ last.out = "EngineUnavailableError" /\ m_ret.asked = NoObject
        \/ last.out = "EngineStartupError" /\ m_ret.found # "alive"
        \/ last.out = "EngineError" /\ m_ret.asked # NoObject

\* an evaluation is under way on the engine while another thread's
\* evaluation waits at the lock
C27_Witness ==
    \E c, w \in MCallers :
        /\ c # w
        /\ m_op[c] = "get_classical_eval" /\ m_pc[c] = "engine_eval"
        /\ m_op[w] = "get_classical_eval" /\ m_pc[w] = "lock"


(* ---------------------------------------------------------------------- *)
(* C28                                                                     *)
(* ---------------------------------------------------------------------- *)
\* C28: once a shutdown() has returned the manager holds no engine and
\* every start() and get_classical_eval() that returns raises
\* EngineUnavailableError; no shutdown() raises, and no engine object is
\* stopped more than once
C28_ShutdownTerminal ==
    /\ m_down => m_engine = NoObject
    /\ m_down /\ (MReturned("start") \/ MReturned("get_classical_eval")) =>
        last.raised /\ last.out = "EngineUnavailableError"
    /\ MReturned("shutdown") => ~last.raised
    /\ \A e \in Objects : m_obj[e].stops <= 1

\* a second shutdown() returned after the first had stopped the engine
C28_Witness ==
    /\ MReturned("shutdown")
    /\ last.via = "no_engine"
    /\ \E e \in Objects : m_obj[e].by = "start" /\ m_obj[e].stops = 1


(* ---------------------------------------------------------------------- *)
(* C29                                                                     *)
(* ---------------------------------------------------------------------- *)
\* the engine objects constructed by start()
ByStart == {e \in Objects : m_obj[e].by = "start"}

\* C29: start() constructs at most one engine object over all its calls
\* and starts it once; when a start() returns with no shutdown begun there
\* is exactly one, started exactly once; a start() that finds an engine
\* held constructs, starts and stops nothing and raises nothing
C29_StartOnce ==
    /\ Cardinality(ByStart) <= 1
    /\ \A e \in ByStart : m_obj[e].starts <= 1
    /\ MReturned("start") /\ ~m_shutdown =>
        /\ Cardinality(ByStart) = 1
        /\ \A e \in ByStart : m_obj[e].starts = 1
    /\ MReturned("start") /\ last.via = "already_started" =>
        /\ ~last.raised
        /\ m_ret.made = <<>> /\ m_ret.started = <<>> /\ m_ret.stops = <<>>

\* a start() returned as a no-op on a manager that held an engine
C29_Witness ==
    /\ MReturned("start")
    /\ last.via = "already_started"
    /\ ~m_shutdown
    /\ Cardinality(ByStart) = 1


(* ---------------------------------------------------------------------- *)
(* C30                                                                     *)
(* ---------------------------------------------------------------------- *)
\* a get_classical_eval that got as far as testing the engine returned
EvalReturned ==
    MReturned("get_classical_eval") /\ last.via \notin {"shutdown", "not_started"}

\* C30: a get_classical_eval that finds its engine dead stops that engine,
\* constructs one new engine, starts it once and sends the request to it;
\* when that start raises, the call raises the start's error and has sent
\* no request and started nothing else; a call that finds the engine
\* alive stops and constructs nothing
C30_SingleRespawn ==
    EvalReturned =>
        IF m_ret.found # "alive"
        THEN /\ m_ret.stops = <<m_ret.held>>
             /\ Len(m_ret.made) = 1
             /\ m_ret.made[1] # m_ret.held
             /\ m_ret.started = m_ret.made
             /\ m_obj[m_ret.made[1]].starts = 1
             /\ IF last.via = "respawn"
                THEN /\ last.raised
                     /\ last.out = "EngineStartupError"
                     /\ m_ret.asked = NoObject
                ELSE m_ret.asked = m_ret.made[1]
        ELSE /\ m_ret.stops = <<>>
             /\ m_ret.made = <<>>
             /\ m_ret.started = <<>>
             /\ m_ret.asked = m_ret.held

\* a call found the engine dead, and the respawned engine answered
C30_Witness ==
    /\ EvalReturned
    /\ m_ret.found = "dead"
    /\ last.out = "ok"



(* ---------------------------------------------------------------------- *)
(* C31                                                                     *)
(* ---------------------------------------------------------------------- *)
\* the step in which acquire raises the error of a failed restart
AcquireGivesUp(c) ==
    pc[c] = "rs_try" /\ op[c] = "acquire" /\ last'.out = "EngineStartupError"

\* C31: an error caused by a process that has exited reaches the caller
\* only after max_retries retries inside the pool: acquire raises for a
\* dead instance only after max_retries in-place restarts, and a request
\* whose engine exited during evaluate() is answered with the error only
\* after evaluate() was retried max_retries times
C31_Original ==
    /\ [][\A c \in Workers : AcquireGivesUp(c) => attempt[c] = max_retries]_vars
    /\ [](last.op = "Evaluate" /\ last.via = "terminated" =>
            last.hc[1] = 1 + max_retries)



(* ---------------------------------------------------------------------- *)
(* C32                                                                     *)
(* ---------------------------------------------------------------------- *)
\* the step in which _restart_engine returns an engine to acquire or to
\* release
RestartReturnsIn(c) == pc[c] = "rs_try" /\ pc'[c] \in {"holding", "rel_put"}

\* new stands in engines2 where old stood in engines1, all else the same
TakesPosition(engines1, engines2, old, new) ==
    /\ Len(engines2) = Len(engines1)
    /\ \A i \in 1..Len(engines1) :
        engines2[i] = IF engines1[i] = old THEN new ELSE engines1[i]

\* C32: _restart_engine makes at most max_retries in-place start attempts
\* and then at most one spawn; when an attempt succeeds it returns the
\* same instance and leaves the tracked list alone; otherwise it returns
\* the one freshly spawned instance, which stands in the tracked list
\* where the dead instance stood
C32_Original ==
    /\ [](\A c \in Workers : attempt[c] \in 0..max_retries)
    /\ [][\A c \in Workers : RestartReturnsIn(c) =>
            \/ /\ attempt[c] < max_retries
               /\ eng'[c] = eng[c]
               /\ nextId' = nextId
               /\ p_engines' = p_engines
            \/ /\ attempt[c] = max_retries
               /\ eng'[c] = nextId
               /\ nextId' = nextId + 1
               /\ TakesPosition(p_engines, p_engines', eng[c], eng'[c])
               /\ eng'[c] \in Range(p_engines')]_vars



(* ---------------------------------------------------------------------- *)
(* C33                                                                     *)
(* ---------------------------------------------------------------------- *)
\* acquire of c is waiting in Queue.get
Waiting(c) == pc[c] = "acq_get"

\* C33: a caller waiting in acquire does not stay there: it leaves the
\* wait with an engine taken from the queue, or with PoolExhaustedError;
\* while an engine sits in the queue its deadline does not advance and it
\* is not timed out, so that the error is raised only with the queue empty
\* and the deadline reached; and an acquire that has taken an engine ends,
\* with the caller holding an engine or with the error of a failed restart
C33_WaiterServiced ==
    /\ \A c \in Workers : Waiting(c) ~> (pc[c] \in {"acq_alive", "idle"})
    /\ \A c \in Workers :
        (pc[c] = "acq_alive") ~> (pc[c] \in {"holding", "idle"})
    /\ [][\A c \in Workers :
            Waiting(c) /\ p_available # <<>> /\ pc'[c] # pc[c] =>
                /\ pc'[c] = "acq_alive"
                /\ eng'[c] = Head(p_available)]_vars
    /\ [][\A c \in Workers :
            Waiting(c) /\ p_available # <<>> => tmo'[c] = tmo[c] \/ ~Waiting(c)']_vars

\* a caller waits on an empty queue, its deadline not reached, while the
\* other caller holds the engine
C33_Witness ==
    \E c, w \in Workers :
        /\ c # w
        /\ Waiting(c) /\ tmo[c] > 0
        /\ p_available = <<>>
        /\ p_started /\ ~p_shutdown
        /\ pc[w] = "holding"



(* ---------------------------------------------------------------------- *)
(* C34                                                                     *)
(* ---------------------------------------------------------------------- *)
\* the instances that are in the availability queue or in a caller's hands
InService(available, held) ==
    (Range(available) \cup {held[c] : c \in Workers}) \ {NoEngine}

\* the step on which an acquire raises
AcquireRaises ==
    last'.op = "acquire" /\ last'.out # "ok" /\ last' # last

\* C34 as stated: when acquire raises, no capacity is lost: an instance it
\* had dequeued is back in the availability queue, so that as many
\* instances are available or checked out after the raise as before it.
C34_Original ==
    [][AcquireRaises =>
        /\ Cardinality(InService(p_available', eng')) =
               Cardinality(InService(p_available, eng))
        /\ \A c \in Workers :
               eng[c] # NoEngine /\ eng'[c] = NoEngine =>
                   eng[c] \in Range(p_available')]_vars



(* ---------------------------------------------------------------------- *)
(* C35                                                                     *)
(* ---------------------------------------------------------------------- *)
\* shutdown() has returned (and start() has not been called since)
ShutdownReturned == p_shutdown /\ ~p_started /\ pc[Main] = "idle"

\* C35 as stated: once shutdown() has returned, whatever acquire and
\* release calls were in progress, the availability queue is empty and
\* stays empty, no acquire returns an engine, no engine process is
\* started, and no engine is running unless a caller still holds it.
C35_Original ==
    /\ [](ShutdownReturned => p_available = <<>>)
    /\ [](ShutdownReturned =>
            \A e \in EngineIds :
                handle[e] = "alive" => \E c \in Workers : eng[c] = e)
    /\ [][ShutdownReturned =>
            /\ ~(last' # last /\ last'.op = "acquire" /\ last'.out = "ok")
            /\ \A e \in EngineIds :
                   handle'[e] = "alive" => handle[e] = "alive"]_vars



(* ---------------------------------------------------------------------- *)
(* C36                                                                     *)
(* ---------------------------------------------------------------------- *)
\* the step on which shutdown() runs _cleanup_engines
ShutdownCleans == pc[Main] = "shutdown_wait" /\ pc'[Main] = "idle"

\* C36 as stated: shutdown() never stops the process of an engine that a
\* caller has checked out, and sends it no quit: across the cleanup of
\* shutdown a checked-out engine keeps its process, and its quit count
\* does not change.
C36_Original ==
    [][ShutdownCleans =>
        \A c \in Workers :
            pc[c] = "holding" =>
                /\ handle'[eng[c]] = handle[eng[c]]
                /\ quits'[eng[c]] = quits[eng[c]]]_vars



(* ---------------------------------------------------------------------- *)
(* C37                                                                     *)
(* ---------------------------------------------------------------------- *)
\* start() of the wrapper t has just raised
StartRaised(t) == last.t = t /\ last.op = "start" /\ last.raised

\* C37 as stated: whenever start() of an engine wrapper raises, the wrapper
\* holds no process afterwards and no spawned process is left running,
\* for StockfishEngine and for Stockfish16Engine alike.
C37_Original ==
    /\ StartRaised("uci") => handle[Uci] = "none"
    /\ StartRaised(Caller) =>
        /\ s16_process = NoProc
        /\ \A p \in ProcIds : proc[p] # "running"



(* ---------------------------------------------------------------------- *)
(* C38                                                                     *)
(* ---------------------------------------------------------------------- *)
\* Stockfish16Manager.start() has just raised because the engine failed
StartFailed == last.op = "start" /\ last.out = "EngineStartupError"

\* C38 as stated: when Stockfish16Manager.start() raises because its engine
\* failed to start, the manager holds no engine, and start() never returns
\* as the already-started no-op on an engine whose start() failed.
C38_Original ==
    /\ [](StartFailed => m_engine = NoObject)
    /\ [][last' # last /\ last'.op = "start" /\ last'.via = "already_started" =>
            m_obj[m_engine].state # "failed"]_vars



(* ---------------------------------------------------------------------- *)
(* C39                                                                     *)
(* ---------------------------------------------------------------------- *)
\* the reader threads that are reading, or about to read, the output of p
ReadersOf(p) == {r \in ReaderIds : rd[r].st \in {"block", "bind"} /\ rd[r].on = p}

\* C39 as stated: at most one reader consumes the output stream of the
\* engine's process at any time, also after an earlier read timed out: no
\* reader of an earlier call is on the stream of a process next to the
\* reader of a later call.
C39_Original ==
    \A p \in ProcIds : proc[p] = "running" => Cardinality(ReadersOf(p)) <= 1



(* ---------------------------------------------------------------------- *)
(* C40                                                                     *)
(* ---------------------------------------------------------------------- *)
\* a get_classical_eval call that has passed its checks and has not
\* returned yet
EvalInFlight(c) ==
    /\ m_op[c] = "get_classical_eval"
    /\ m_pc[c] \in {"restart_stop", "restart_start", "engine_eval"}

\* the step on which shutdown() of c stops the engine
ShutdownStops(c) ==
    m_op[c] = "shutdown" /\ m_pc[c] = "engine_stop" /\ m_pc'[c] = "idle"

\* C40: shutdown() takes effect only between operations: while a
\* get_classical_eval is in flight the manager is not shut down, shutdown
\* neither sets its flag nor stops or takes away the engine, and the call
\* ends with the engine it asked still the manager's engine; a
\* get_classical_eval that finds the manager shut down is rejected with
\* EngineUnavailableError and touches no engine.
C40_ShutdownBetweenOps ==
    /\ [](\A c \in MCallers : EvalInFlight(c) => ~m_shutdown /\ m_lock = c)
    /\ [][\A c, d \in MCallers :
            EvalInFlight(d) =>
                /\ ~ShutdownStops(c)
                /\ m_shutdown' = m_shutdown
                /\ m_engine' = NoObject => m_engine = NoObject]_vars
    /\ [][\A c \in MCallers :
            m_op[c] = "get_classical_eval" /\ m_pc[c] = "in" /\ m_shutdown
              /\ m_pc'[c] # "in" =>
                /\ last'.out = "EngineUnavailableError" /\ last'.raised
                /\ m_pc'[c] = "idle"
                /\ m_obj' = m_obj /\ m_engine' = m_engine]_vars
    /\ [](MReturned("get_classical_eval") /\ last.out = "ok" =>
            /\ ~m_shutdown
            /\ m_engine = m_ret.asked
            /\ m_obj[m_engine].stops = 0)

\* a shutdown waits for the lock while a get_classical_eval is inside the
\* engine
C40_Witness ==
    \E c, d \in MCallers :
        /\ m_op[c] = "shutdown" /\ m_pc[c] = "lock"
        /\ m_op[d] = "get_classical_eval" /\ m_pc[d] = "engine_eval"
        /\ ~m_shutdown

====
